---- MODULE Spec2Model ----
(***************************************************************************)
(* yaf2m: the poll-dispatch engine.                                        *)
(*                                                                         *)
(* The model follows src/src/worker.rs (dispatch loop, per-group worker,   *)
(* failure tracker), src/src/db.rs (the SQL statements on feed_groups,     *)
(* feed_items and failures) and src/src/config.rs (identity hashes).       *)
(*                                                                         *)
(* Time is an integer clock `now`; every Utc::now() of the code reads it.  *)
(* The clock may advance between any two steps of a worker.  A blake3      *)
(* digest is modelled injectively, by the sequence of values hashed.       *)
(***************************************************************************)
EXTENDS Integers, Sequences, FiniteSets, TLC

\* ------------------------------------------------------------------------
\* Bounds of the model
\* ------------------------------------------------------------------------
MaxTime == 5
MaxReloadTime == 4
MaxMailTime == 3
MaxReloads == 1
MaxRun == 7
MaxRaceTime == 4
MaxGroupTime == 4
MaxClauses == 2
MaxUrls == 2
MaxFeeds == 3
MaxSendMails == 2
MaxErrorTime == 4
MaxSortItems == 3
MaxKeys == 2

\* ------------------------------------------------------------------------
\* Values
\* ------------------------------------------------------------------------
Groups == {"g1", "g2"}

\* SQL NULL of feed_groups.last_update
NULL == -1

\* DateTime::UNIX_EPOCH
UNIX_EPOCH == 0

\* Feed entries: the fields the update keys, the filters and the sort of the
\* model read.  `updated` and `published` are Option<DateTime>, None is <<>>.
E1 == [id |-> "a", title |-> "Rust", updated |-> <<1>>, published |-> <<>>]
E2 == [id |-> "b", title |-> "Go", updated |-> <<2>>, published |-> <<1>>]
E3 == [id |-> "c", title |-> "Rust", updated |-> <<>>, published |-> <<1>>]

Entries == {E1, E2, E3}

\* What a fetch of the group's URLs may return (merged, in URL order).
FeedMenu == {<<>>, <<E1>>, <<E1, E2>>, <<E1, E2, E3>>}

\* Matching criteria of a group: update-key expressions and the filter.
NoFilter == [kind |-> "None", pattern |-> "", clauses |-> <<>>]
RustFilter == [kind |-> "TitleRegex", pattern |-> "Rust", clauses |-> <<>>]

UpdateKeySets == {<<"item.id">>, <<"item.title">>}
Filters == {NoFilter, RustFilter}

Intervals == {1, 2}
KeepOlds == {0, 3}
GlobalKeepOlds == {0, 1}
GroupFeeds == {<<E1>>}
MaxMails == {1, 2}

\* config.rs:72-90 Settings, the fields the model reads.  Durations are in
\* minutes, the period of the dispatch loop; `recipients` says whether any
\* of to, cc and bcc has a mailbox.
Settings == [interval : Intervals, keep_old : KeepOlds, digest : BOOLEAN,
             max_mails_per_check : MaxMails, recipients : BOOLEAN,
             sort_by_last_modified : BOOLEAN,
             update_keys : UpdateKeySets, filter : Filters]

\* config.rs:23-26: TimeDelta::hours(1), TimeDelta::weeks(1), 5
DEFAULT_INTERVAL == 60
DEFAULT_KEEP_OLD == 10080
DEFAULT_MAX_MAILS_PER_CHECK == 5

\* config.rs:211-252 OptionalSettings::with_default on a settings table that
\* sets nothing: no recipient, no filter, the one update key item.id.
DefaultSettings == [interval |-> DEFAULT_INTERVAL, keep_old |-> DEFAULT_KEEP_OLD,
                    digest |-> FALSE,
                    max_mails_per_check |-> DEFAULT_MAX_MAILS_PER_CHECK,
                    recipients |-> FALSE, sort_by_last_modified |-> FALSE,
                    update_keys |-> <<"item.id">>, filter |-> NoFilter]

\* The settings of a config file that names a recipient and sets interval,
\* keep-old and max-mails-per-check to values of the model's clock.
BaseSettings == [DefaultSettings EXCEPT !.interval = 1, !.keep_old = 3,
                                        !.max_mails_per_check = 2, !.recipients = TRUE]

\* Configurations that vary the cadence and the retention.
SchedSettings == {s \in Settings : \E i \in Intervals : \E k \in KeepOlds :
                     s = [BaseSettings EXCEPT !.interval = i, !.keep_old = k]}

\* Configurations that vary the matching criteria.
CriteriaSettings == {s \in Settings : \E u \in UpdateKeySets : \E f \in Filters :
                        s = [BaseSettings EXCEPT !.update_keys = u, !.filter = f]}

\* The same with no retention (keep-old = "0s").
NoRetentionSettings == {[s EXCEPT !.keep_old = 0] : s \in CriteriaSettings}

\* Configurations that vary what the mails of a cycle depend on and the
\* retention of the item rows it commits, and one whose new items are
\* sorted.  The filter is what a reload makes it (ReloadFilter).
MailSettings == {s \in Settings : \E d \in BOOLEAN : \E m \in MaxMails : \E r \in BOOLEAN :
                    \E k \in KeepOlds :
                    s = [BaseSettings EXCEPT !.digest = d, !.max_mails_per_check = m,
                                             !.recipients = r, !.keep_old = k]}
                   \cup {[BaseSettings EXCEPT !.sort_by_last_modified = TRUE]}

\* ------------------------------------------------------------------------
\* Pure functions
\* ------------------------------------------------------------------------

\* db.rs saturating_sub_datetime
saturating_sub_datetime(dt, delta) ==
    IF dt - delta > 0 THEN dt - delta ELSE UNIX_EPOCH

\* config.rs FeedConfig::resolve, urls_hash: the digest of the ordered URL
\* list; a group of the model is named by its URL list.
urls_hash(g) == <<"urls", g>>

\* config.rs FeedConfig::resolve, criteria_hash = H(urls_hash, H(keys), filter)
criteria_hash(g, s) == <<urls_hash(g), s.update_keys, s.filter>>

\* Value of one update-key expression on an entry (minijinja evaluation).
eval_key(key, e) == IF key = "item.id" THEN e.id ELSE e.title

\* render.rs Renderer::update_hash: H(H(v1) || H(v2) || ...)
update_hash(s, e) == [i \in 1..Len(s.update_keys) |-> eval_key(s.update_keys[i], e)]

\* ------------------------------------------------------------------------
\* Filters (config.rs:125-135, render.rs:166-250)
\* ------------------------------------------------------------------------
\* A filter is a record: the variant, the pattern or expression of a leaf,
\* the clauses of And and Or, the single clause of Not.
Leaf(kind, pattern) == [kind |-> kind, pattern |-> pattern, clauses |-> <<>>]
And(clauses) == [kind |-> "And", pattern |-> "", clauses |-> clauses]
Or(clauses) == [kind |-> "Or", pattern |-> "", clauses |-> clauses]
Not(clause) == [kind |-> "Not", pattern |-> "", clauses |-> <<clause>>]

\* str::as_bytes for the strings of the model, which are the URLs, update
\* keys, patterns and tags that are hashed, the texts that are searched, and
\* the patterns and texts of the tests of render.rs; a byte is a one-letter
\* string.
as_bytes(str) ==
    CASE str = "a" -> <<"a">>
      [] str = "b" -> <<"b">>
      [] str = "ab" -> <<"a", "b">>
      [] str = "c" -> <<"c">>
      [] str = "bc" -> <<"b", "c">>
      [] str = "1" -> <<"1">>
      [] str = "item.id" -> <<"i", "t", "e", "m", ".", "i", "d">>
      [] str = "item.title" -> <<"i", "t", "e", "m", ".", "t", "i", "t", "l", "e">>
      [] str = "Rust" -> <<"R", "u", "s", "t">>
      [] str = "^Rust" -> <<"^", "R", "u", "s", "t">>
      [] str = "R.st$" -> <<"R", ".", "s", "t", "$">>
      [] str = "Go" -> <<"G", "o">>
      [] str = "Rustacean" -> <<"R", "u", "s", "t", "a", "c", "e", "a", "n">>
      [] str = "And" -> <<"A", "n", "d">>
      [] str = "Or" -> <<"O", "r">>
      [] str = "Not" -> <<"N", "o", "t">>
      [] str = "TitleRegex" -> <<"T", "i", "t", "l", "e", "R", "e", "g", "e", "x">>
      [] str = "BodyRegex" -> <<"B", "o", "d", "y", "R", "e", "g", "e", "x">>
      [] str = "Regex" -> <<"R", "e", "g", "e", "x">>
      [] str = "JinjaExpr" -> <<"J", "i", "n", "j", "a", "E", "x", "p", "r">>
      [] str = "Body" -> <<"B", "o", "d", "y">>
      [] str = "Match" -> <<"M", "a", "t", "c", "h">>
      [] str = "NeverMatch" -> <<"N", "e", "v", "e", "r", "M", "a", "t", "c", "h">>
      [] str = "NoMatch1" -> <<"N", "o", "M", "a", "t", "c", "h", "1">>
      [] str = "NoMatch2" -> <<"N", "o", "M", "a", "t", "c", "h", "2">>
      [] str = "Skip" -> <<"S", "k", "i", "p">>
      [] str = "SummaryText" -> <<"S", "u", "m", "m", "a", "r", "y", "T", "e", "x", "t">>
      [] str = "important" -> <<"i", "m", "p", "o", "r", "t", "a", "n", "t">>
      [] str = "search" -> <<"s", "e", "a", "r", "c", "h">>
      [] str = "Body text" -> <<"B", "o", "d", "y", " ", "t", "e", "x", "t">>
      [] str = "Python" -> <<"P", "y", "t", "h", "o", "n">>
      [] str = "Match This" -> <<"M", "a", "t", "c", "h", " ", "T", "h", "i", "s">>
      [] str = "Different Title" -> <<"D", "i", "f", "f", "e", "r", "e", "n", "t", " ", "T", "i", "t", "l", "e">>
      [] str = "Normal Title" -> <<"N", "o", "r", "m", "a", "l", " ", "T", "i", "t", "l", "e">>
      [] str = "Skip This" -> <<"S", "k", "i", "p", " ", "T", "h", "i", "s">>
      [] str = "Title" -> <<"T", "i", "t", "l", "e">>
      [] str = "<p>Body</p>" -> <<"<", "p", ">", "B", "o", "d", "y", "<", "/", "p", ">">>
      [] str = "SummaryText here" -> <<"S", "u", "m", "m", "a", "r", "y", "T", "e", "x", "t", " ", "h", "e", "r", "e">>
      [] str = "Rust Programming" -> <<"R", "u", "s", "t", " ", "P", "r", "o", "g", "r", "a", "m", "m", "i", "n", "g">>
      [] str = "Rust in summary" -> <<"R", "u", "s", "t", " ", "i", "n", " ", "s", "u", "m", "m", "a", "r", "y">>
      [] str = "Python Guide" -> <<"P", "y", "t", "h", "o", "n", " ", "G", "u", "i", "d", "e">>
      [] str = "important info" -> <<"i", "m", "p", "o", "r", "t", "a", "n", "t", " ", "i", "n", "f", "o">>
      [] str = "important Title" -> <<"i", "m", "p", "o", "r", "t", "a", "n", "t", " ", "T", "i", "t", "l", "e">>
      [] str = "irrelevant summary" -> <<"i", "r", "r", "e", "l", "e", "v", "a", "n", "t", " ", "s", "u", "m", "m", "a", "r", "y">>
      [] str = "irrelevant" -> <<"i", "r", "r", "e", "l", "e", "v", "a", "n", "t">>
      [] str = "search term" -> <<"s", "e", "a", "r", "c", "h", " ", "t", "e", "r", "m">>
      [] str = "summary" -> <<"s", "u", "m", "m", "a", "r", "y">>
      [] str = "search in summary" -> <<"s", "e", "a", "r", "c", "h", " ", "i", "n", " ", "s", "u", "m", "m", "a", "r", "y">>
      [] str = "No match" -> <<"N", "o", " ", "m", "a", "t", "c", "h">>
      [] str = "Summary" -> <<"S", "u", "m", "m", "a", "r", "y">>

\* The texts of an item that the filters are called on.
Texts == {"Rust", "Rustacean", "Go"}

\* The pattern without a leading ^ and a trailing $
regex_body(p) ==
    LET from == IF p # <<>> /\ p[1] = "^" THEN 2 ELSE 1
        to == IF p # <<>> /\ p[Len(p)] = "$" THEN Len(p) - 1 ELSE Len(p)
    IN SubSeq(p, from, to)

\* The pattern matches the text from position i on: a dot stands for any
\* one character, every other character of the pattern for itself.
matches_at(body, text, i) ==
    /\ i + Len(body) - 1 <= Len(text)
    /\ \A k \in 1..Len(body) : body[k] = "." \/ body[k] = text[i + k - 1]

\* regex::Regex::is_match: a search, the pattern may match anywhere in the
\* text unless it is anchored.  The patterns of the model are made of literal
\* characters, the dot, ^ at the start and $ at the end.
is_match(re, text) ==
    LET p == as_bytes(re)
        t == as_bytes(text)
        body == regex_body(p)
        starts == IF p # <<>> /\ p[1] = "^" THEN {1} ELSE 1..(Len(t) + 1)
    IN \E i \in starts :
          /\ matches_at(body, t, i)
          /\ (p # <<>> /\ p[Len(p)] = "$") => i + Len(body) - 1 = Len(t)

\* feed_rs Entry as the filter reads it: the id, Option<Text> title and
\* summary, Option<Content> content with an Option<String> body; None is <<>>.
Ids == {"a", "b"}
OptionText == {<<>>} \cup {<<t>> : t \in Texts}
Contents == {<<>>} \cup {<<[body |-> b]>> : b \in OptionText}
Contexts == [id : Ids, title : OptionText, summary : OptionText, content : Contents]

\* The context of an entry that has a title and neither summary nor content.
ItemContext(e) == [id |-> e.id, title |-> <<e.title>>, summary |-> <<>>, content |-> <<>>]

\* render.rs:238: ctx.item.content.as_ref().and_then(|c| c.body.as_ref())
content_body(ctx) == IF ctx.content = <<>> THEN <<>> ELSE ctx.content[1].body

\* minijinja Expression::eval then is_true: the expressions of the model are
\* the constants, a comparison of the id of the item with a string (the
\* second is the one of the tests of render.rs) and a call of an unknown
\* function, which is an error.
JinjaExprs == {"true", "false", "item.id == 'a'", "undefined()"}
eval(expr, ctx) ==
    CASE expr = "true" -> "true"
      [] expr = "false" -> "false"
      [] expr = "item.id == 'a'" -> IF ctx.id = "a" THEN "true" ELSE "false"
      [] expr = "item.id == 'matchme'" -> IF ctx.id = "matchme" THEN "true" ELSE "false"
      [] expr = "undefined()" -> "error"

\* Mutant of TitleRegex: the summary is searched as well.
TitleRegex_summary(re, ctx) ==
    \E i \in 1..Len(ctx.title \o ctx.summary) : is_match(re, (ctx.title \o ctx.summary)[i])

\* render.rs:232-234: title.is_some_and(|t| re.is_match(&t.content))
TitleRegex(re, ctx) == ctx.title # <<>> /\ is_match(re, ctx.title[1])

\* render.rs:235-237: summary chained with the content body, any match
BodyRegex(re, ctx) ==
    LET texts == ctx.summary \o content_body(ctx) IN
    \E i \in 1..Len(texts) : is_match(re, texts[i])

\* render.rs:238-241: title, summary and content body chained, any match
Regex(re, ctx) ==
    LET texts == ctx.title \o ctx.summary \o content_body(ctx) IN
    \E i \in 1..Len(texts) : is_match(re, texts[i])

\* Result<bool> of a leaf that cannot fail
Ok(b) == IF b THEN "true" ELSE "false"

RECURSIVE evaluate(_, _)

\* Mutant of all_clauses: every clause is evaluated before the answer is given.
all_clauses_eager(clauses, ctx) ==
    IF \E i \in 1..Len(clauses) : evaluate(clauses[i], ctx) = "error" THEN "error"
    ELSE Ok(\A i \in 1..Len(clauses) : evaluate(clauses[i], ctx) = "true")

\* render.rs:215-222: the loop of And; `?` returns the error of a clause,
\* the first false clause returns Ok(false), the end of the loop Ok(true)
RECURSIVE all_clauses(_, _)
all_clauses(clauses, ctx) ==
    IF clauses = <<>> THEN "true"
    ELSE LET r == evaluate(Head(clauses), ctx) IN
         IF r = "true" THEN all_clauses(Tail(clauses), ctx) ELSE r

\* render.rs:223-230: the loop of Or; `?` returns the error of a clause,
\* the first true clause returns Ok(true), the end of the loop Ok(false)
RECURSIVE any_clause(_, _)
any_clause(clauses, ctx) ==
    IF clauses = <<>> THEN "false"
    ELSE LET r == evaluate(Head(clauses), ctx) IN
         IF r = "false" THEN any_clause(Tail(clauses), ctx) ELSE r

\* render.rs:213-250 CompiledFilter::evaluate: "true", "false" or "error"
evaluate(f, ctx) ==
    CASE f.kind = "And" -> all_clauses(f.clauses, ctx)
      [] f.kind = "Or" -> any_clause(f.clauses, ctx)
      [] f.kind = "Not" ->
            LET r == evaluate(f.clauses[1], ctx) IN
            IF r = "error" THEN r ELSE Ok(r = "false")
      [] f.kind = "TitleRegex" -> Ok(TitleRegex(f.pattern, ctx))
      [] f.kind = "BodyRegex" -> Ok(BodyRegex(f.pattern, ctx))
      [] f.kind = "Regex" -> Ok(Regex(f.pattern, ctx))
      [] f.kind = "JinjaExpr" -> eval(f.pattern, ctx)

\* ------------------------------------------------------------------------
\* Hashes of a feed group (config.rs:137-176, 309-334)
\* ------------------------------------------------------------------------
\* blake3::hash and Hasher::finalize under the injective model: the digest
\* of a byte stream is the stream itself, wrapped.
hash(bytes) == <<"digest", bytes>>

\* Hash::from_bytes(Default::default()): the all-zero digest, which is the
\* digest of no stream.
ZeroHash == <<"digest", <<"zero">>>>

\* Hash::as_bytes: the bytes of a digest are one block of fixed width in
\* the stream it is fed to.
digest_bytes(h) == <<h>>

\* Mutant of hashed: the bytes are fed to the hasher as they are.
hashed_raw(str) == as_bytes(str)

\* hasher.update(hash(x.as_bytes()).as_bytes()): what one URL, update key or
\* pattern adds to the stream
hashed(str) == digest_bytes(hash(as_bytes(str)))

\* config.rs:311-313, 321-323: for x in list { hasher.update(hash(x)...) }
RECURSIVE update_each(_)
update_each(strs) ==
    IF strs = <<>> THEN <<>> ELSE hashed(Head(strs)) \o update_each(Tail(strs))

\* A minijinja value: a string, or a number given by its digits.
Str(text) == [kind |-> "str", text |-> text]
Num(digits) == [kind |-> "num", text |-> digits]

\* Value::to_string of a number: its digits
to_string(value) == value.text

\* The bytes of the values, run on.
RECURSIVE joined_bytes(_)
joined_bytes(values) ==
    IF values = <<>> THEN <<>>
    ELSE as_bytes(to_string(Head(values))) \o joined_bytes(Tail(values))

\* Mutant of update_values: the values are joined and hashed as one.
update_values_joined(values) == digest_bytes(hash(joined_bytes(values)))

\* render.rs:114-118: what one evaluated update key adds to the stream;
\* Value::as_bytes is Some for a string and None for a number.
update_value(value) ==
    IF value.kind = "str" THEN digest_bytes(hash(as_bytes(value.text)))
    ELSE digest_bytes(hash(as_bytes(to_string(value))))

\* render.rs:110-119: the loop over the update keys, on their values
RECURSIVE update_values(_)
update_values(values) ==
    IF values = <<>> THEN <<>> ELSE update_value(Head(values)) \o update_values(Tail(values))

\* render.rs:108-121 Renderer::update_hash on the values the update keys
\* evaluate to
Renderer_update_hash(values) == hash(update_values(values))

\* The values of the update keys of an item: texts that run on into each
\* other, a number and the text of its digits.
KeyValues == {Str("a"), Str("ab"), Str("c"), Str("bc"), Str("1"), Num("1")}
ValueLists == UNION {[1..n -> KeyValues] : n \in 1..MaxKeys}
UpdateHashCalls == [fn : {"update_hash"}, a : ValueLists, b : ValueLists, result : {<<>>}]

\* config.rs:137-176 Filter::hash
RECURSIVE Filter_hash(_)
Filter_hash(f) ==
    IF f.kind \in {"And", "Or", "Not"}
    THEN hash(as_bytes(f.kind)
              \o [i \in 1..Len(f.clauses) |-> Filter_hash(f.clauses[i])])
    ELSE hash(as_bytes(f.kind) \o hashed(f.pattern))

\* config.rs:309-334 FeedConfig::resolve: the two hashes of the group.  The
\* filter is an Option, <<>> or <<f>>.
resolve(cfg) ==
    LET urls_h == hash(update_each(cfg.urls))
        update_key_hash == hash(update_each(cfg.update_keys))
        filter_hash == IF cfg.filter = <<>> THEN ZeroHash ELSE Filter_hash(cfg.filter[1])
    IN [urls_hash |-> urls_h,
        criteria_hash |-> hash(digest_bytes(urls_h) \o digest_bytes(update_key_hash)
                                  \o digest_bytes(filter_hash))]

\* The feed entries of a config file as far as the hashes and the cadence go.
Urls == {"a", "b", "ab"}
UrlLists == UNION {[1..n -> Urls] : n \in 1..MaxUrls}
KeyLists == {<<"item.id">>, <<"item.id", "item.title">>}
HashedFilters ==
    {<<>>, <<Leaf("TitleRegex", "Rust")>>, <<Leaf("Regex", "Rust")>>,
     <<Not(Leaf("TitleRegex", "Rust"))>>}
FeedConfigs ==
    [urls : UrlLists, update_keys : KeyLists, filter : HashedFilters, interval : Intervals]

\* ------------------------------------------------------------------------
\* Sending the mails of a cycle (email.rs:21-67)
\* ------------------------------------------------------------------------
RETRY_COUNT == 3

\* email.rs:57: 1 << attempt
shl1(attempt) == 2 ^ attempt

\* What the transport was asked and what followed: the position of the mail
\* in the list, the attempt, whether the transport accepted it, and the
\* seconds slept after it (0: no sleep).
Attempt(mail, attempt, sent, slept) ==
    [mail |-> mail, attempt |-> attempt, sent |-> sent, slept |-> slept]

\* email.rs:45-64: the loops over the mails and the attempts.  `answers` are
\* the answers of the transport in the order it is asked; `k` answers were
\* used and `log` is what happened up to attempt `attempt` of mail `i`.
RECURSIVE send_loop(_, _, _, _, _, _)
send_loop(mails, answers, i, attempt, k, log) ==
    IF i > Len(mails) THEN [ok |-> TRUE, log |-> log]
    ELSE IF answers[k + 1]
    THEN send_loop(mails, answers, i + 1, 1, k + 1,
                   Append(log, Attempt(i, attempt, TRUE, 0)))
    ELSE IF attempt < RETRY_COUNT
    THEN send_loop(mails, answers, i, attempt + 1, k + 1,
                   Append(log, Attempt(i, attempt, FALSE, shl1(attempt))))
    ELSE [ok |-> FALSE, log |-> Append(log, Attempt(i, attempt, FALSE, 0))]

\* The same loops where a mail that failed for good is given up and the next
\* one is tried.
RECURSIVE send_loop_on(_, _, _, _, _, _, _)
send_loop_on(mails, answers, i, attempt, k, log, ok) ==
    IF i > Len(mails) THEN [ok |-> ok, log |-> log]
    ELSE IF answers[k + 1]
    THEN send_loop_on(mails, answers, i + 1, 1, k + 1,
                      Append(log, Attempt(i, attempt, TRUE, 0)), ok)
    ELSE IF attempt < RETRY_COUNT
    THEN send_loop_on(mails, answers, i, attempt + 1, k + 1,
                      Append(log, Attempt(i, attempt, FALSE, shl1(attempt))), ok)
    ELSE send_loop_on(mails, answers, i + 1, 1, k + 1,
                      Append(log, Attempt(i, attempt, FALSE, 0)), FALSE)

\* Mutant of send_email_with_backoff: the mails after a failed one are sent.
send_email_with_backoff_on(recipients, mails, answers) ==
    IF ~recipients THEN [ok |-> TRUE, log |-> <<>>]
    ELSE send_loop_on(mails, answers, 1, 1, 0, <<>>, TRUE)

\* email.rs:21-67 send_email_with_backoff; `recipients` is whether one of
\* to, cc, bcc is not empty.
send_email_with_backoff(recipients, mails, answers) ==
    IF ~recipients THEN [ok |-> TRUE, log |-> <<>>]
    ELSE send_loop(mails, answers, 1, 1, 0, <<>>)

\* The mails of a cycle, by name, and the answers of the transport to as
\* many attempts as the mails can take.
MailLists == {[i \in 1..n |-> i] : n \in 0..MaxSendMails}
SendCalls ==
    UNION {[fn : {"send"}, recipients : BOOLEAN, mails : {m},
            answers : [1..(RETRY_COUNT * Len(m)) -> BOOLEAN], result : {<<>>}] : m \in MailLists}

\* ------------------------------------------------------------------------
\* Loading the config file (config.rs:37-69)
\* ------------------------------------------------------------------------
\* config.rs:46-50: every feed entry resolved, with its hashes
resolve_all(entries) ==
    [i \in 1..Len(entries) |->
        [urls |-> entries[i].urls,
         urls_hash |-> resolve(entries[i]).urls_hash,
         criteria_hash |-> resolve(entries[i]).criteria_hash]]

\* config.rs:52-61: the loop over the feeds; the first feed whose urls_hash
\* is already in url_hash_set is returned, <<>> when the loop ends.
RECURSIVE first_duplicate(_, _)
first_duplicate(feed_list, url_hash_set) ==
    IF feed_list = <<>> THEN <<>>
    ELSE IF Head(feed_list).urls_hash \in url_hash_set THEN <<Head(feed_list)>>
    ELSE first_duplicate(Tail(feed_list), url_hash_set \cup {Head(feed_list).urls_hash})

\* Mutant of load_config: the feeds are not compared.
load_config_unchecked(entries) ==
    [ok |-> TRUE, error |-> "", urls |-> <<>>, feeds |-> resolve_all(entries)]

\* config.rs:45-68 load_config on the feed entries of a file that was read
\* and parsed: Err with the URLs of the duplicate, or Ok with the groups
load_config(entries) ==
    LET feed_list == resolve_all(entries)
        dup == first_duplicate(feed_list, {})
    IN IF dup # <<>>
       THEN [ok |-> FALSE, error |-> "Duplicate feed URLs detected in config file",
             urls |-> dup[1].urls, feeds |-> <<>>]
       ELSE [ok |-> TRUE, error |-> "", urls |-> <<>>, feeds |-> feed_list]

\* The feed entries of the config files that are loaded: URL lists that are
\* equal, permuted or joined, with and without a filter.
LoadUrlLists == {<<"a">>, <<"b">>, <<"a", "b">>, <<"b", "a">>, <<"ab">>}
LoadEntries ==
    [urls : LoadUrlLists, update_keys : {<<"item.id">>},
     filter : {<<>>, <<Leaf("TitleRegex", "Rust")>>}, interval : {1}]
ConfigFiles == UNION {[1..n -> LoadEntries] : n \in 0..MaxFeeds}

\* The filters that are evaluated: the leaves, And and Or of at most
\* MaxClauses leaves, Not of each of these, and Not of Not of each of these.
FilterLeaves ==
    {Leaf("TitleRegex", "^Rust"), Leaf("BodyRegex", "Rust"), Leaf("Regex", "R.st$")}
       \cup {Leaf("JinjaExpr", x) : x \in JinjaExprs}
ClauseLists == UNION {[1..n -> FilterLeaves] : n \in 0..MaxClauses}
FlatFilters == FilterLeaves \cup {And(c) : c \in ClauseLists} \cup {Or(c) : c \in ClauseLists}
FilterTrees ==
    FlatFilters \cup {Not(f) : f \in FlatFilters} \cup {Not(Not(f)) : f \in FlatFilters}

\* render.rs:123-127 Renderer::filter on an Option<CompiledFilter>:
\* map_or(Ok(true), |f| f.evaluate(ctx))
Renderer_filter(opt, ctx) == IF opt = <<>> THEN "true" ELSE evaluate(opt[1], ctx)

\* worker.rs:176 renderer.filter(item) for the settings of a group, whose
\* filter is NoFilter or a filter that cannot fail
filter(s, e) ==
    Renderer_filter(IF s.filter.kind = "None" THEN <<>> ELSE <<s.filter>>, ItemContext(e)) = "true"

\* ------------------------------------------------------------------------
\* The SQL store (db.rs)
\* ------------------------------------------------------------------------

\* A feed_groups row; NoGroup stands for "no row with this urls_hash".
NoGroup == [present |-> FALSE, last_check |-> UNIX_EPOCH, last_update |-> NULL,
            last_seen |-> UNIX_EPOCH, criteria_hash |-> <<>>]

\* A failures row; NoFailure stands for "no row with this urls_hash".
NoFailure == [present |-> FALSE, fail_count |-> 0, error |-> "", fail_time |-> UNIX_EPOCH]

\* db.rs touch_feed_group_last_seen: UPDATE ... SET last_seen = now WHERE urls_hash = H
touch_feed_group_last_seen(row, t) ==
    IF row.present THEN [row EXCEPT !.last_seen = t] ELSE row

\* Mutant of try_check_feed_group: the cutoff comparison made non-strict.
try_check_feed_group_le(row, t, interval) ==
    LET update_cutoff == saturating_sub_datetime(t, interval) IN
    IF ~row.present
    THEN [status |-> "new",
          row |-> [row EXCEPT !.present = TRUE, !.last_check = t, !.last_seen = t]]
    ELSE IF row.last_check <= update_cutoff
    THEN [status |-> "update", row |-> [row EXCEPT !.last_check = t]]
    ELSE [status |-> "wait", row |-> row]

\* db.rs try_check_feed_group: INSERT (H, now, now) ON CONFLICT DO UPDATE
\* SET last_check = now WHERE last_check < update_cutoff; 'new' when the row
\* was inserted, 'update' when it was updated, 'wait' when nothing was returned.
try_check_feed_group(row, t, interval) ==
    LET update_cutoff == saturating_sub_datetime(t, interval) IN
    IF ~row.present
    THEN [status |-> "new",
          row |-> [row EXCEPT !.present = TRUE, !.last_check = t, !.last_seen = t]]
    ELSE IF row.last_check < update_cutoff
    THEN [status |-> "update", row |-> [row EXCEPT !.last_check = t]]
    ELSE [status |-> "wait", row |-> row]

\* db.rs is_feed_group_waiting: SELECT 1 ... WHERE urls_hash = H AND last_check > cutoff
is_feed_group_waiting(row, t, interval) ==
    row.present /\ row.last_check > saturating_sub_datetime(t, interval)

\* worker.rs FeedStatus of a status string of the SQL statement.
FeedStatusOf(status) ==
    CASE status = "new" -> "NewFeed"
      [] status = "update" -> "Update"
      [] OTHER -> "Wait"

\* Mutant of check_feed_group: a changed criteria_hash is not looked at.
check_feed_group_blind(g, row, s, t) ==
    LET base == try_check_feed_group(row, t, s.interval) IN
    [status |-> FeedStatusOf(base.status),
     row |-> IF base.status = "wait" THEN base.row
             ELSE [base.row EXCEPT !.criteria_hash = criteria_hash(g, s)],
     reset |-> FALSE]

\* The later iteration's claim (the db module worker.rs is written against):
\* the group's criteria_hash is kept in a feed_groups column and compared
\* inside the claim.  A row whose criteria_hash differs from the live one is
\* claimed as NewCriteria, and the group's dedup ledger is reset.
check_feed_group(g, row, s, t) ==
    LET live == criteria_hash(g, s)
        base == try_check_feed_group(row, t, s.interval) IN
    IF row.present /\ row.criteria_hash # live
    THEN [status |-> "NewCriteria",
          row |-> [row EXCEPT !.last_check = t, !.criteria_hash = live],
          reset |-> TRUE]
    ELSE [status |-> FeedStatusOf(base.status),
          row |-> IF base.status = "wait" THEN base.row
                  ELSE [base.row EXCEPT !.criteria_hash = live],
          reset |-> FALSE]

\* The feed_items rows of one group are a set of [update_hash, last_seen].
HasItem(items, h) == \E r \in items : r.update_hash = h

\* db.rs upsert_and_check_item_new: INSERT ... ON CONFLICT (urls_hash, update_hash)
\* DO UPDATE SET last_seen; new iff the row was inserted (xmax = 0).
upsert_and_check_item_new(items, h, t) ==
    [items |-> {r \in items : r.update_hash # h} \cup {[update_hash |-> h, last_seen |-> t]},
     new |-> ~HasItem(items, h)]

\* db.rs delete_old_items: DELETE ... WHERE urls_hash = H AND last_seen < cutoff
delete_old_items(items, t, keep_old) ==
    LET cutoff == saturating_sub_datetime(t, keep_old) IN
    {r \in items : ~(r.last_seen < cutoff)}

\* db.rs set_feed_group_update_time: UPDATE ... SET last_update WHERE
\* urls_hash = H; with no row for the group nothing is updated.
set_feed_group_update_time(row, t) ==
    IF row.present THEN [row EXCEPT !.last_update = t] ELSE row

\* Mutant of record_failure: the conflict branch does not count.
record_failure_once(f, error, t) ==
    [present |-> TRUE, fail_count |-> 1, error |-> error, fail_time |-> t]

\* db.rs record_failure: INSERT (H, 1, error, now) ON CONFLICT DO UPDATE
\* SET fail_count = fail_count + 1, error, fail_time
record_failure(f, error, t) ==
    IF f.present
    THEN [f EXCEPT !.fail_count = f.fail_count + 1, !.error = error, !.fail_time = t]
    ELSE [present |-> TRUE, fail_count |-> 1, error |-> error, fail_time |-> t]

\* ------------------------------------------------------------------------
\* The per-group worker (worker.rs Worker::process_feed)
\* ------------------------------------------------------------------------

\* db.rs:18-29: DELETE FROM feed_groups WHERE last_seen < cutoff
delete_old_groups(groups, t, keep_old) ==
    [g \in DOMAIN groups |->
        IF groups[g].present /\ groups[g].last_seen < saturating_sub_datetime(t, keep_old)
        THEN NoGroup ELSE groups[g]]

\* Mutant of delete_old_groups_except: the hashes of the live config are ignored.
delete_old_groups_everywhere(groups, t, keep, feed_hashes) ==
    delete_old_groups(groups, t, keep)

\* worker.rs:123 delete_old_groups(&pool, keep_old, &feed_hashes): the statement
\* of db.rs:18-29 restricted to the groups whose hash is not in feed_hashes,
\* the hashes of the live config (worker.rs:56-59).
delete_old_groups_except(groups, t, keep, feed_hashes) ==
    [g \in DOMAIN groups |->
        IF g \in feed_hashes THEN groups[g]
        ELSE delete_old_groups(groups, t, keep)[g]]

\* feed_items.urls_hash references feed_groups ON DELETE CASCADE
cascade_items(groups, items) ==
    [g \in DOMAIN items |-> IF groups[g].present THEN items[g] ELSE {}]

\* db.rs:181-192: DELETE FROM failures WHERE fail_time < cutoff
delete_old_failures(fs, t, keep_old) ==
    [g \in DOMAIN fs |->
        IF fs[g].present /\ fs[g].fail_time < saturating_sub_datetime(t, keep_old)
        THEN NoFailure ELSE fs[g]]

\* Mutant of get_failing_feeds: the query returns every failures row.
RECURSIVE get_failing_feeds_any(_, _, _)
get_failing_feeds_any(fs, live, todo) ==
    IF todo = {} THEN <<>>
    ELSE LET g == CHOOSE x \in todo : TRUE
             rest == get_failing_feeds_any(fs, live, todo \ {g})
         IN IF fs[g].present /\ fs[g].fail_count >= 1 /\ live[g].live
            THEN <<[feed |-> g, error |-> fs[g].error]>> \o rest
            ELSE rest

\* db.rs:194-201 and worker.rs:101-108: the rows with fail_count >= 2 whose
\* group is in the live config, as (feed, error) pairs
RECURSIVE get_failing_feeds(_, _, _)
get_failing_feeds(fs, live, todo) ==
    IF todo = {} THEN <<>>
    ELSE LET g == CHOOSE x \in todo : TRUE
             rest == get_failing_feeds(fs, live, todo \ {g})
         IN IF fs[g].present /\ fs[g].fail_count >= 2 /\ live[g].live
            THEN <<[feed |-> g, error |-> fs[g].error]>> \o rest
            ELSE rest

\* Mutant of is_digest: the cap on per-item mails compared with >=.
is_digest_ge(status, s, new_items) ==
    \/ status \in {"NewFeed", "NewCriteria"}
    \/ s.digest
    \/ Len(new_items) >= s.max_mails_per_check

\* worker.rs:212-214, the mail-mode condition
is_digest(status, s, new_items) ==
    \/ status \in {"NewFeed", "NewCriteria"}
    \/ s.digest
    \/ Len(new_items) > s.max_mails_per_check

\* Mutant of subject_prefix: every digest of a claimed cycle is marked as new.
subject_prefix_all(status) ==
    CASE status = "NewCriteria" -> "[New Criteria] "
      [] OTHER -> "[New Feed] "

\* worker.rs:221-225
subject_prefix(status) ==
    CASE status = "NewFeed" -> "[New Feed] "
      [] status = "NewCriteria" -> "[New Criteria] "
      [] OTHER -> ""

\* worker.rs:211-241: the mails of a cycle.  A mail is the template that
\* renders it, the prefix put before the rendered subject, and its items.
build_mails(status, s, new_items) ==
    IF new_items = <<>> THEN <<>>
    ELSE IF is_digest(status, s, new_items)
    THEN <<[template |-> "digest", prefix |-> subject_prefix(status), items |-> new_items]>>
    ELSE [i \in 1..Len(new_items) |->
            [template |-> "item", prefix |-> "", items |-> <<new_items[i]>>]]

\* Mutant of check_items: the row of an item is upserted before the filter
\* is asked.
RECURSIVE check_items_upserts(_, _, _, _)
check_items_upserts(s, feed, items, clock) ==
    IF feed = <<>> THEN [items |-> items, new_items |-> <<>>]
    ELSE LET e == Head(feed)
             r == upsert_and_check_item_new(items, update_hash(s, e), Head(clock))
             rest == check_items_upserts(s, Tail(feed), r.items, Tail(clock))
         IN [items |-> rest.items,
             new_items |-> IF r.new /\ filter(s, e) THEN <<e>> \o rest.new_items
                           ELSE rest.new_items]

\* worker.rs:172-198: filter, hash and upsert every item in merged order;
\* the items whose row was inserted are the new items.  Every upsert is an
\* awaited statement that reads the clock itself (db.rs:111): clock[i] is
\* the time at the i-th pass of the loop.
RECURSIVE check_items(_, _, _, _)
check_items(s, feed, items, clock) ==
    IF feed = <<>> THEN [items |-> items, new_items |-> <<>>]
    ELSE LET e == Head(feed) IN
         IF ~filter(s, e) THEN check_items(s, Tail(feed), items, Tail(clock))
         ELSE LET r == upsert_and_check_item_new(items, update_hash(s, e), Head(clock))
                  rest == check_items(s, Tail(feed), r.items, Tail(clock))
              IN [items |-> rest.items,
                  new_items |-> IF r.new THEN <<e>> \o rest.new_items
                                ELSE rest.new_items]

\* ------------------------------------------------------------------------
\* The order of the emitted items (worker.rs:200-202)
\* ------------------------------------------------------------------------
\* Option::or: the first option if it is Some, else the second
Option_or(a, b) == IF a # <<>> THEN a ELSE b

\* Mutant of last_modified: published is preferred to updated.
last_modified_published(item) == Option_or(item.published, item.updated)

\* worker.rs:201: item.item.updated.or(item.item.published)
last_modified(item) == Option_or(item.updated, item.published)

\* Ord of Option<DateTime>: None is less than every Some
Option_lt(a, b) == IF a = <<>> THEN b # <<>> ELSE b # <<>> /\ a[1] < b[1]

\* Ord of std::cmp::Reverse
Reverse_lt(a, b) == Option_lt(b, a)

\* slice::sort_by_key is stable: each element is placed, in turn, before the
\* first element already placed whose key is greater than its own.
insert_by_key(sorted, x) ==
    LET after == {i \in 1..Len(sorted) : Reverse_lt(last_modified(x), last_modified(sorted[i]))}
        at == IF after = {} THEN Len(sorted) + 1
              ELSE CHOOSE i \in after : \A j \in after : i <= j
    IN SubSeq(sorted, 1, at - 1) \o <<x>> \o SubSeq(sorted, at, Len(sorted))

RECURSIVE sort_by_key(_)
sort_by_key(items) ==
    IF items = <<>> THEN <<>>
    ELSE insert_by_key(sort_by_key(SubSeq(items, 1, Len(items) - 1)), items[Len(items)])

\* worker.rs:200-202: the new items in merged order, sorted when the group
\* asks for it
sort_new_items(sort_by_last_modified, new_items) ==
    IF sort_by_last_modified THEN sort_by_key(new_items) ELSE new_items

\* ------------------------------------------------------------------------
\* Fetching the URLs of a group (worker.rs:159-172)
\* ------------------------------------------------------------------------
Reverse(seq) == [i \in 1..Len(seq) |-> seq[Len(seq) + 1 - i]]

\* feed.rs:25-70 fetch_feed: the feed behind a URL and its items, each item
\* in the context of its feed.
fetch_feed(url, served) ==
    [feed |-> url,
     items |-> [i \in 1..Len(served[url]) |->
                  [id |-> served[url][i].id, title |-> served[url][i].title,
                   updated |-> served[url][i].updated,
                   published |-> served[url][i].published, feed |-> url]]]

\* worker.rs:163-169: the loop that fetches `urls` in the order given and
\* pushes each feed
RECURSIVE fetch_each(_, _, _)
fetch_each(urls, served, all_feeds) ==
    IF urls = <<>> THEN all_feeds
    ELSE fetch_each(Tail(urls), served, Append(all_feeds, fetch_feed(Head(urls), served)))

\* Mutant of fetch_all: the fetched feeds are left in the order of fetching.
fetch_all_unreversed(urls, served) ==
    LET fetched == fetch_each(Reverse(urls), served, <<>>) IN
    [order |-> [i \in 1..Len(fetched) |-> fetched[i].feed], all_feeds |-> fetched]

\* worker.rs:159-170: urls.iter().rev() is fetched, then all_feeds.reverse();
\* `order` is the order in which the URLs were fetched.
fetch_all(urls, served) ==
    LET fetched == fetch_each(Reverse(urls), served, <<>>) IN
    [order |-> [i \in 1..Len(fetched) |-> fetched[i].feed], all_feeds |-> Reverse(fetched)]

\* worker.rs:174: all_feeds.iter().flat_map(|feed| feed.borrow_items())
RECURSIVE flat_map(_)
flat_map(all_feeds) ==
    IF all_feeds = <<>> THEN <<>> ELSE Head(all_feeds).items \o flat_map(Tail(all_feeds))

\* worker.rs:159-202, 216-219: the fetch, the merged stream, the item loop,
\* the sort of the new items and the `feeds` of a digest.
fetch_and_check(s, urls, served, items, clock) ==
    LET f == fetch_all(urls, served)
        merged == flat_map(f.all_feeds)
        r == check_items(s, merged, items, clock)
    IN [order |-> f.order, merged |-> merged,
        feeds |-> [i \in 1..Len(f.all_feeds) |-> f.all_feeds[i].feed],
        items |-> r.items,
        new_items |-> sort_new_items(s.sort_by_last_modified, r.new_items)]

\* The URLs of a group and what they serve: the same entry behind two URLs,
\* two entries of one title, a feed that repeats an entry, an entry under
\* another title.
FetchUrls == {"u1", "u2"}
FetchUrlLists == {<<"u1">>, <<"u1", "u2">>, <<"u2", "u1">>}
UrlFeeds == {<<>>, <<E1>>, <<E3>>, <<E2, E1>>, <<E3, E2, E3>>, <<[E1 EXCEPT !.title = "Go"]>>}
\* The clock at each pass of the item loop: the loop runs within a minute,
\* or a minute passes before every upsert.
FetchClocks == {[i \in 1..(3 * MaxUrls) |-> 1], [i \in 1..(3 * MaxUrls) |-> i]}

FetchCalls ==
    UNION {[fn : {"fetch"}, settings : {s}, urls : FetchUrlLists,
            served : [FetchUrls -> UrlFeeds], clock : FetchClocks,
            items : {{}, {[update_hash |-> update_hash(s, E1), last_seen |-> 0]}},
            result : {<<>>}] :
              s \in {[c EXCEPT !.sort_by_last_modified = o] :
                        c \in CriteriaSettings, o \in BOOLEAN}}

\* ------------------------------------------------------------------------
\* Inputs of the sort on its own
\* ------------------------------------------------------------------------
\* The new items of a cycle in merged order (`id` is the place in it), each
\* with or without a time of update and of publication.
Times == {<<>>, <<1>>, <<2>>}
SortLists ==
    UNION {{[i \in 1..n |-> [id |-> i, updated |-> u[i], published |-> p[i]]] :
              u \in [1..n -> Times], p \in [1..n -> Times]} : n \in 0..MaxSortItems}
SortCalls ==
    [fn : {"sort"}, sort_by_last_modified : BOOLEAN, new_items : SortLists, result : {<<>>}]

\* ------------------------------------------------------------------------
\* The failure tracker (worker.rs FailureTracker)
\* ------------------------------------------------------------------------

\* worker.rs:300
DEBOUNCE_TIMES == 5

\* The failures handed to the tracker: (feed group, error text) pairs, one
\* per failing group, in the order the query returned them.
FailureErrors == {"error 1", "error 2"}
FailureRows == [feed : Groups, error : FailureErrors]
FailureLists ==
    {<<>>} \cup {<<a>> : a \in FailureRows}
           \cup {p \in FailureRows \X FailureRows : p[1].feed # p[2].feed}

\* Mailboxes of the operator (config error-report-to).
Operators == {"ops@example.com"}

\* Byte order of the urls_hash of a group.
HashRank(g) == IF g = "g1" THEN 1 ELSE 2

\* worker.rs:321 sort_unstable_by_key(urls_hash): insertion into a sorted list
RECURSIVE insert_sorted(_, _)
insert_sorted(sorted, x) ==
    IF sorted = <<>> THEN <<x>>
    ELSE IF HashRank(x.feed) <= HashRank(Head(sorted).feed) THEN <<x>> \o sorted
    ELSE <<Head(sorted)>> \o insert_sorted(Tail(sorted), x)

RECURSIVE sort_failures(_)
sort_failures(failures) ==
    IF failures = <<>> THEN <<>>
    ELSE insert_sorted(sort_failures(Tail(failures)), Head(failures))

\* Mutant of failing_hash_of: the error texts are hashed too.
failing_hash_of_rows(sorted) ==
    [i \in 1..Len(sorted) |-> <<urls_hash(sorted[i].feed), sorted[i].error>>]

\* worker.rs:322-328: the digest of the urls_hash values, in order
failing_hash_of(sorted) == [i \in 1..Len(sorted) |-> urls_hash(sorted[i].feed)]

\* Mutant of FailureTracker_new: the countdown is armed from the start.
FailureTracker_new_armed ==
    [failing_hash |-> <<>>, debounce_count |-> DEBOUNCE_TIMES, report_to |-> {}]

\* worker.rs:302-314 FailureTracker::new; Hasher::new().finalize() is the
\* digest of nothing.
FailureTracker_new ==
    [failing_hash |-> <<>>, debounce_count |-> 0, report_to |-> {}]

\* worker.rs:316-318
set_report_to(tr, report_to) == [tr EXCEPT !.report_to = report_to]

NoMail == [subject |-> "", body |-> "", failures |-> <<>>]
RecoveryMail == [subject |-> "All feeds are working",
                 body |-> "All feeds are back to normal now", failures |-> <<>>]
FailureMail(failures) == [subject |-> "Error processing feeds",
                          body |-> "failure-report.html", failures |-> failures]

\* worker.rs:345-385 send_failure_report; send_ok is whether the transport
\* accepts the mail within its retries.  The result is Ok or Err and the
\* mail the transport accepted, if any.
send_failure_report(tr, failures, send_ok) ==
    IF tr.report_to = {} THEN [ok |-> TRUE, mail |-> NoMail]
    ELSE LET mail == IF failures = <<>> THEN RecoveryMail ELSE FailureMail(failures) IN
         IF send_ok THEN [ok |-> TRUE, mail |-> mail]
         ELSE [ok |-> FALSE, mail |-> NoMail]

\* Mutant of record: the report is sent by the tick that counts down to 1.
record_eager(tr, failures, send_ok) ==
    LET sorted == sort_failures(failures)
        failing_hash == failing_hash_of(sorted) IN
    IF failing_hash = tr.failing_hash
    THEN IF tr.debounce_count <= 1 THEN [tracker |-> tr, mail |-> NoMail]
         ELSE IF tr.debounce_count = 2
         THEN LET r == send_failure_report(tr, sorted, send_ok) IN
              [tracker |-> [tr EXCEPT !.debounce_count = IF r.ok THEN 0 ELSE 2],
               mail |-> r.mail]
         ELSE [tracker |-> [tr EXCEPT !.debounce_count = @ - 1], mail |-> NoMail]
    ELSE [tracker |-> [tr EXCEPT !.failing_hash = failing_hash,
                                 !.debounce_count = DEBOUNCE_TIMES],
          mail |-> NoMail]

\* Mutant of record: a successful send does not stop the countdown state.
record_resend(tr, failures, send_ok) ==
    LET sorted == sort_failures(failures)
        failing_hash == failing_hash_of(sorted) IN
    IF failing_hash = tr.failing_hash
    THEN IF tr.debounce_count = 0 THEN [tracker |-> tr, mail |-> NoMail]
         ELSE IF tr.debounce_count = 1
         THEN LET r == send_failure_report(tr, sorted, send_ok) IN
              [tracker |-> tr, mail |-> r.mail]
         ELSE [tracker |-> [tr EXCEPT !.debounce_count = @ - 1], mail |-> NoMail]
    ELSE [tracker |-> [tr EXCEPT !.failing_hash = failing_hash,
                                 !.debounce_count = DEBOUNCE_TIMES],
          mail |-> NoMail]

\* Mutant of record: the count goes to 0 whatever the send returned.
record_giveup(tr, failures, send_ok) ==
    LET sorted == sort_failures(failures)
        failing_hash == failing_hash_of(sorted) IN
    IF failing_hash = tr.failing_hash
    THEN IF tr.debounce_count = 0 THEN [tracker |-> tr, mail |-> NoMail]
         ELSE IF tr.debounce_count = 1
         THEN LET r == send_failure_report(tr, sorted, send_ok) IN
              [tracker |-> [tr EXCEPT !.debounce_count = 0], mail |-> r.mail]
         ELSE [tracker |-> [tr EXCEPT !.debounce_count = @ - 1], mail |-> NoMail]
    ELSE [tracker |-> [tr EXCEPT !.failing_hash = failing_hash,
                                 !.debounce_count = DEBOUNCE_TIMES],
          mail |-> NoMail]

\* worker.rs:320-343 FailureTracker::record
record(tr, failures, send_ok) ==
    LET sorted == sort_failures(failures)
        failing_hash == failing_hash_of(sorted) IN
    IF failing_hash = tr.failing_hash
    THEN IF tr.debounce_count = 0 THEN [tracker |-> tr, mail |-> NoMail]
         ELSE IF tr.debounce_count = 1
         THEN LET r == send_failure_report(tr, sorted, send_ok) IN
              [tracker |-> IF r.ok THEN [tr EXCEPT !.debounce_count = 0] ELSE tr,
               mail |-> r.mail]
         ELSE [tracker |-> [tr EXCEPT !.debounce_count = @ - 1], mail |-> NoMail]
    ELSE [tracker |-> [tr EXCEPT !.failing_hash = failing_hash,
                                 !.debounce_count = DEBOUNCE_TIMES],
          mail |-> NoMail]

\* ------------------------------------------------------------------------
\* State
\* ------------------------------------------------------------------------
VARIABLES
    now,          \* the clock read by Utc::now()
    phase,        \* position of the dispatch loop (Worker::run)
    feeds,        \* the live config: per group, whether it is configured and its settings
    keep_old,     \* the live config: keep_old of the global settings (worker.rs:42, 60)
    feed_groups,  \* table feed_groups, by urls_hash
    feed_items,   \* table feed_items, by urls_hash: set of [update_hash, last_seen]
    failures,     \* table failures, by urls_hash
    task,         \* the process_feed task of each group: position and locals
    last_feed,    \* per group: what the last committed cycle fetched
    reloaded,     \* per group: the config changed since the last committed cycle
    reloads,      \* how many times the config file was reloaded after startup
    tracker,      \* the FailureTracker of Worker::run
    ticks,        \* what the ticks of the tracker were given and what they sent
    race,         \* transactions of several processes claiming one group
    call          \* the last call of a function of config.rs or render.rs: input and result

\* The dispatch loop and its store
loopVars == <<now, phase, feeds, keep_old, feed_groups, feed_items, failures, task, last_feed,
              reloaded, reloads>>

\* The failure tracker
trackerVars == <<tracker, ticks>>

vars == <<loopVars, trackerVars, race, call>>

NotConfigured == [live |-> FALSE, settings |-> DefaultSettings]

\* No function of config.rs or render.rs has been called.
NoCall == [fn |-> "none"]

\* Locals of a task that is not running.
\* `repeat` is set by a commit: the cycle fetched what the last committed
\* cycle of the group had fetched, under the same config; a finished task
\* keeps its status, its error, its new items and `repeat`.  `check` is
\* what is_feed_group_waiting answered to the caller of a process_feed that
\* failed: "waiting", "not waiting" or "failed"; `recorded` says that
\* record_failure was called and returned Ok.  `pos` counts the items of the
\* feed that the item loop has dealt with.
Idle == [pc |-> "idle", status |-> "", row |-> NoGroup, items |-> {},
         feed |-> <<>>, new_items |-> <<>>, mails |-> <<>>, sent |-> 0, error |-> "",
         pos |-> 0, repeat |-> FALSE, check |-> "", recorded |-> FALSE]

NoFeed == <<[id |-> "none", title |-> ""]>>

\* ------------------------------------------------------------------------
\* Actions of a process_feed task (worker.rs:143-275) and of its caller
\* (worker.rs:69-90)
\* ------------------------------------------------------------------------
Running(g) == task[g].pc \notin {"idle", "done"}

\* worker.rs:146 touch_feed_group_last_seen, on the pool (autocommit)
Touch(g) ==
    /\ task[g].pc = "start"
    /\ feed_groups' = [feed_groups EXCEPT ![g] = touch_feed_group_last_seen(@, now)]
    /\ task' = [task EXCEPT ![g].pc = "touched"]
    /\ UNCHANGED <<trackerVars, race, call>>
    /\ UNCHANGED <<now, phase, feeds, keep_old, feed_items, failures, last_feed, reloaded, reloads>>

\* Mutant of Claim: a cycle that is answered wait clears the failure of the
\* group as a committed cycle does.
Claim_clears(g) ==
    /\ task[g].pc = "touched"
    /\ LET r == check_feed_group(g, feed_groups[g], feeds[g].settings, now) IN
       /\ task' = [task EXCEPT ![g] =
                     IF r.status = "Wait"
                     THEN [Idle EXCEPT !.pc = "done", !.status = "Wait"]
                     ELSE [Idle EXCEPT !.pc = "claimed", !.status = r.status, !.row = r.row,
                                       !.items = IF r.reset THEN {} ELSE feed_items[g]]]
       /\ failures' = IF r.status = "Wait" THEN [failures EXCEPT ![g] = NoFailure]
                      ELSE failures
    /\ UNCHANGED <<trackerVars, race, call>>
    /\ UNCHANGED <<now, phase, feeds, keep_old, feed_groups, feed_items, last_feed, reloaded, reloads>>

\* worker.rs:148-155: begin the transaction and claim the cycle; on Wait the
\* task returns (the transaction is dropped).
Claim(g) ==
    /\ task[g].pc = "touched"
    /\ LET r == check_feed_group(g, feed_groups[g], feeds[g].settings, now) IN
       task' = [task EXCEPT ![g] =
                  IF r.status = "Wait"
                  THEN [Idle EXCEPT !.pc = "done", !.status = "Wait"]
                  ELSE [Idle EXCEPT !.pc = "claimed", !.status = r.status, !.row = r.row,
                                    !.items = IF r.reset THEN {} ELSE feed_items[g]]]
    /\ UNCHANGED <<trackerVars, race, call>>
    /\ UNCHANGED <<now, phase, feeds, keep_old, feed_groups, feed_items, failures, last_feed, reloaded, reloads>>

\* worker.rs:157-170: build the renderer and fetch every URL
Fetch(g) ==
    /\ task[g].pc = "claimed"
    /\ \E f \in FeedMenu : task' = [task EXCEPT ![g].pc = "fetched", ![g].feed = f]
    /\ UNCHANGED <<trackerVars, race, call>>
    /\ UNCHANGED <<now, phase, feeds, keep_old, feed_groups, feed_items, failures, last_feed, reloaded, reloads>>

\* worker.rs:172-208: one pass of the item loop inside the transaction, up
\* to the return of its awaited upsert: the item at `pos` is filtered,
\* hashed and upserted at the time of this step.  After the last item the
\* loop ends and the new items are sorted if the group asks for it.
CheckItems(g) ==
    /\ task[g].pc = "fetched"
    /\ LET s == feeds[g].settings
           left == SubSeq(task[g].feed, task[g].pos + 1, Len(task[g].feed))
           r == check_items(s, IF left = <<>> THEN <<>> ELSE <<Head(left)>>,
                            task[g].items, <<now>>)
           new_items == task[g].new_items \o r.new_items
       IN task' = IF Len(left) <= 1
                  THEN [task EXCEPT ![g].pc = "checked", ![g].pos = Len(task[g].feed),
                                    ![g].items = r.items,
                                    ![g].new_items =
                                       sort_new_items(s.sort_by_last_modified, new_items)]
                  ELSE [task EXCEPT ![g].pos = @ + 1, ![g].items = r.items,
                                    ![g].new_items = new_items]
    /\ UNCHANGED <<trackerVars, race, call>>
    /\ UNCHANGED <<now, phase, feeds, keep_old, feed_groups, feed_items, failures, last_feed, reloaded, reloads>>

\* Mutant of NoMails: the update time is set although nothing is new.
NoMails_updates(g) ==
    /\ task[g].pc = "checked"
    /\ task[g].new_items = <<>>
    /\ task' = [task EXCEPT ![g].pc = "mailed",
                            ![g].row = set_feed_group_update_time(@, now)]
    /\ UNCHANGED <<trackerVars, race, call>>
    /\ UNCHANGED <<now, phase, feeds, keep_old, feed_groups, feed_items, failures, last_feed, reloaded, reloads>>

\* worker.rs:210-266 with no new item: nothing is rendered or sent
NoMails(g) ==
    /\ task[g].pc = "checked"
    /\ task[g].new_items = <<>>
    /\ task' = [task EXCEPT ![g].pc = "mailed"]
    /\ UNCHANGED <<trackerVars, race, call>>
    /\ UNCHANGED <<now, phase, feeds, keep_old, feed_groups, feed_items, failures, last_feed, reloaded, reloads>>

\* worker.rs:245-252, 265: no recipient in to/cc/bcc, the mails are not sent
SkipSend(g) ==
    /\ task[g].pc = "checked"
    /\ task[g].new_items # <<>>
    /\ ~feeds[g].settings.recipients
    /\ task' = [task EXCEPT ![g].pc = "mailed",
                            ![g].mails = build_mails(task[g].status, feeds[g].settings,
                                                     task[g].new_items),
                            ![g].row = set_feed_group_update_time(@, now)]
    /\ UNCHANGED <<trackerVars, race, call>>
    /\ UNCHANGED <<now, phase, feeds, keep_old, feed_groups, feed_items, failures, last_feed, reloaded, reloads>>

\* worker.rs:253-265: every mail is accepted by the transport
SendMails(g) ==
    /\ task[g].pc = "checked"
    /\ task[g].new_items # <<>>
    /\ feeds[g].settings.recipients
    /\ LET mails == build_mails(task[g].status, feeds[g].settings, task[g].new_items) IN
       task' = [task EXCEPT ![g].pc = "mailed", ![g].mails = mails, ![g].sent = Len(mails),
                            ![g].row = set_feed_group_update_time(@, now)]
    /\ UNCHANGED <<trackerVars, race, call>>
    /\ UNCHANGED <<now, phase, feeds, keep_old, feed_groups, feed_items, failures, last_feed, reloaded, reloads>>

\* Mutant of SendFails: the error of the send is logged and the cycle goes on.
SendFails_logged(g) ==
    /\ task[g].pc = "checked"
    /\ task[g].new_items # <<>>
    /\ feeds[g].settings.recipients
    /\ LET mails == build_mails(task[g].status, feeds[g].settings, task[g].new_items) IN
       \E k \in 0..(Len(mails) - 1) :
          task' = [task EXCEPT ![g].pc = "mailed", ![g].mails = mails, ![g].sent = k,
                               ![g].row = set_feed_group_update_time(@, now)]
    /\ UNCHANGED <<trackerVars, race, call>>
    /\ UNCHANGED <<now, phase, feeds, keep_old, feed_groups, feed_items, failures, last_feed, reloaded, reloads>>

\* worker.rs:254-261: the transport refuses the (k+1)-th mail after the
\* retries; the error leaves process_feed and the transaction is dropped.
SendFails(g) ==
    /\ task[g].pc = "checked"
    /\ task[g].new_items # <<>>
    /\ feeds[g].settings.recipients
    /\ LET mails == build_mails(task[g].status, feeds[g].settings, task[g].new_items) IN
       \E k \in 0..(Len(mails) - 1) :
          task' = [task EXCEPT ![g].pc = "error", ![g].mails = mails, ![g].sent = k,
                               ![g].error = "send failed"]
    /\ UNCHANGED <<trackerVars, race, call>>
    /\ UNCHANGED <<now, phase, feeds, keep_old, feed_groups, feed_items, failures, last_feed, reloaded, reloads>>

\* worker.rs:268-274: clear the failure, delete the old items, commit
Finish(g) ==
    /\ task[g].pc = "mailed"
    /\ feed_groups' = [feed_groups EXCEPT ![g] = task[g].row]
    /\ feed_items' = [feed_items EXCEPT ![g] =
                        delete_old_items(task[g].items, now, feeds[g].settings.keep_old)]
    /\ failures' = [failures EXCEPT ![g] = NoFailure]
    /\ task' = [task EXCEPT ![g] =
                   [Idle EXCEPT !.pc = "done", !.status = task[g].status,
                                !.new_items = task[g].new_items,
                                !.repeat = (last_feed[g] = task[g].feed /\ ~reloaded[g])]]
    /\ last_feed' = [last_feed EXCEPT ![g] = task[g].feed]
    /\ reloaded' = [reloaded EXCEPT ![g] = FALSE]
    /\ UNCHANGED <<trackerVars, race, call>>
    /\ UNCHANGED <<now, phase, feeds, keep_old, reloads>>

\* Mutant of Abort: the claimed row outlives the failed cycle.
Abort_claimed(g) ==
    /\ task[g].pc \in {"claimed", "fetched", "checked", "mailed"}
    /\ task' = [task EXCEPT ![g].pc = "error",
                            ![g].error = "step failed"]
    /\ feed_groups' = [feed_groups EXCEPT ![g] = task[g].row]
    /\ UNCHANGED <<trackerVars, race, call>>
    /\ UNCHANGED <<now, phase, feeds, keep_old, feed_items, failures, last_feed, reloaded, reloads>>

\* Mutant of Abort: the item rows written so far outlive the failed cycle.
Abort_autocommit(g) ==
    /\ task[g].pc \in {"claimed", "fetched", "checked", "mailed"}
    /\ task' = [task EXCEPT ![g].pc = "error",
                            ![g].error = "step failed"]
    /\ feed_items' = [feed_items EXCEPT ![g] = task[g].items]
    /\ UNCHANGED <<trackerVars, race, call>>
    /\ UNCHANGED <<now, phase, feeds, keep_old, feed_groups, failures, last_feed, reloaded, reloads>>

\* Any `?` of process_feed after the claim other than the send: the renderer,
\* a fetch, an expression, a template or a statement of the transaction fails.
Abort(g) ==
    /\ task[g].pc \in {"claimed", "fetched", "checked", "mailed"}
    /\ task' = [task EXCEPT ![g].pc = "error",
                            ![g].error = "step failed"]
    /\ UNCHANGED <<trackerVars, race, call>>
    /\ UNCHANGED <<now, phase, feeds, keep_old, feed_groups, feed_items, failures, last_feed, reloaded, reloads>>

\* worker.rs:146-150: the touch of last_seen, the begin of the transaction
\* or the claim fails; `?` returns the error from process_feed.
AbortEarly(g) ==
    /\ task[g].pc \in {"start", "touched"}
    /\ task' = [task EXCEPT ![g].pc = "error",
                            ![g].error = "step failed"]
    /\ UNCHANGED <<trackerVars, race, call>>
    /\ UNCHANGED <<now, phase, feeds, keep_old, feed_groups, feed_items, failures, last_feed, reloaded, reloads>>

\* worker.rs:72-80: the group is within its wait window, or the check fails
ErrorIgnored(g) ==
    /\ task[g].pc = "error"
    /\ \E check \in {"waiting", "failed"} :
          /\ check = "waiting" =>
                is_feed_group_waiting(feed_groups[g], now, feeds[g].settings.interval)
          /\ task' = [task EXCEPT ![g] =
                         [Idle EXCEPT !.pc = "done", !.status = task[g].status,
                                      !.error = task[g].error, !.check = check]]
    /\ UNCHANGED <<trackerVars, race, call>>
    /\ UNCHANGED <<now, phase, feeds, keep_old, feed_groups, feed_items, failures, last_feed, reloaded, reloads>>

\* worker.rs:72, 81: is_feed_group_waiting answers that the group is not
\* waiting; record_failure is the next statement of the task.
ErrorNotWaiting(g) ==
    /\ task[g].pc = "error"
    /\ ~is_feed_group_waiting(feed_groups[g], now, feeds[g].settings.interval)
    /\ task' = [task EXCEPT ![g].pc = "recording", ![g].check = "not waiting"]
    /\ UNCHANGED <<trackerVars, race, call>>
    /\ UNCHANGED <<now, phase, feeds, keep_old, feed_groups, feed_items, failures, last_feed, reloaded, reloads>>

\* Mutant of ErrorRecorded: the failure is recorded without looking at the
\* wait window.
ErrorRecorded_always(g) ==
    /\ task[g].pc \in {"error", "recording"}
    /\ failures' = [failures EXCEPT ![g] = record_failure(@, task[g].error, now)]
    /\ task' = [task EXCEPT ![g] = [Idle EXCEPT !.pc = "done", !.status = task[g].status,
                                                !.error = task[g].error,
                                                !.check = "not waiting",
                                                !.recorded = TRUE]]
    /\ UNCHANGED <<trackerVars, race, call>>
    /\ UNCHANGED <<now, phase, feeds, keep_old, feed_groups, feed_items, last_feed, reloaded, reloads>>

\* worker.rs:82-87: record_failure on the pool, with its own Utc::now(); if
\* the statement fails the error is logged and the row stays as it was.
ErrorRecorded(g) ==
    /\ task[g].pc = "recording"
    /\ \E ok \in BOOLEAN :
          /\ failures' = IF ok THEN [failures EXCEPT ![g] = record_failure(@, task[g].error, now)]
                         ELSE failures
          /\ task' = [task EXCEPT ![g] =
                         [Idle EXCEPT !.pc = "done", !.status = task[g].status,
                                      !.error = task[g].error, !.check = task[g].check,
                                      !.recorded = ok]]
    /\ UNCHANGED <<trackerVars, race, call>>
    /\ UNCHANGED <<now, phase, feeds, keep_old, feed_groups, feed_items, last_feed, reloaded, reloads>>

\* Time passes while a task is at work.
Tick ==
    /\ \E g \in Groups : Running(g)
    /\ now < MaxTime
    /\ now' = now + 1
    /\ UNCHANGED <<trackerVars, race, call>>
    /\ UNCHANGED <<phase, feeds, keep_old, feed_groups, feed_items, failures, task, last_feed, reloaded, reloads>>

\* ------------------------------------------------------------------------
\* The ticks of the failure tracker (worker.rs:61, 99-121)
\* ------------------------------------------------------------------------
Min(a, b) == IF a < b THEN a ELSE b

FeedsOf(failing) == {failing[i].feed : i \in 1..Len(failing)}

\* What is recorded of the ticks: `n` flips at every tick; `set`, `rcpt` and
\* `ok` are the failing set, whether there was a report recipient and the
\* transport's answer at the last tick; `mail` is the subject of the mail
\* that tick had accepted; `run` counts the consecutive ticks that were
\* given this same set (up to MaxRun), `run_sent` the mails accepted and
\* `run_failed` a refused send among them; `seen_nonempty` and `ever_sent`
\* hold since the start; `failing` is the list the last tick was given and
\* `varied` says that it had the members of the list before it in another
\* order or with other error texts; `reported` says that the last mail
\* accepted since the start was a failure report.
NoTicks == [n |-> 0, set |-> {}, rcpt |-> FALSE, ok |-> TRUE, mail |-> "", run |-> 0,
            run_sent |-> 0, run_failed |-> FALSE, seen_nonempty |-> FALSE,
            ever_sent |-> FALSE, failing |-> <<>>, varied |-> FALSE,
            reported |-> FALSE]

\* worker.rs:118: the tracker is handed any failing set, and the transport
\* gives any answer
TrackerTick(failing, send_ok) ==
    LET r == record(tracker, failing, send_ok)
        set == FeedsOf(failing)
        same == ticks.run > 0 /\ set = ticks.set
        sent == r.mail # NoMail
        refused == /\ failing_hash_of(sort_failures(failing)) = tracker.failing_hash
                   /\ tracker.debounce_count = 1
                   /\ tracker.report_to # {}
                   /\ ~send_ok
    IN /\ tracker' = r.tracker
       /\ ticks' = [n |-> 1 - ticks.n,
                    set |-> set,
                    rcpt |-> tracker.report_to # {},
                    ok |-> send_ok,
                    mail |-> r.mail.subject,
                    run |-> IF same THEN Min(ticks.run + 1, MaxRun) ELSE 1,
                    run_sent |-> Min(2, (IF same THEN ticks.run_sent ELSE 0)
                                        + (IF sent THEN 1 ELSE 0)),
                    run_failed |-> (same /\ ticks.run_failed) \/ refused,
                    seen_nonempty |-> ticks.seen_nonempty \/ set # {},
                    ever_sent |-> ticks.ever_sent \/ sent,
                    failing |-> failing,
                    varied |-> same /\ failing # ticks.failing,
                    reported |-> IF r.mail = NoMail THEN ticks.reported
                                 ELSE r.mail.subject = "Error processing feeds"]
       /\ UNCHANGED <<loopVars, race, call>>

\* ------------------------------------------------------------------------
\* The dispatch loop (worker.rs Worker::run)
\* ------------------------------------------------------------------------
Spawned(f) == [g \in Groups |-> IF f[g].live THEN [Idle EXCEPT !.pc = "start"] ELSE Idle]

\* worker.rs:47-91 with an unchanged config file: spawn one task per group
Spawn ==
    /\ phase = "sleep"
    /\ phase' = "tasks"
    /\ task' = Spawned(feeds)
    /\ UNCHANGED <<trackerVars, race, call>>
    /\ UNCHANGED <<now, feeds, keep_old, feed_groups, feed_items, failures, last_feed, reloaded, reloads>>

\* worker.rs:51-63 then 65-91: the config file changed, the settings `s` of
\* group g replace the old ones, then the tasks are spawned.
ReloadSpawn(g, s) ==
    /\ phase = "sleep"
    /\ reloads < MaxReloads
    /\ feeds[g].live
    /\ s # feeds[g].settings
    /\ reloads' = reloads + 1
    /\ feeds' = [feeds EXCEPT ![g].settings = s]
    /\ reloaded' = [reloaded EXCEPT ![g] = TRUE]
    /\ phase' = "tasks"
    /\ task' = Spawned(feeds')
    /\ UNCHANGED <<trackerVars, race, call>>
    /\ UNCHANGED <<now, keep_old, feed_groups, feed_items, failures, last_feed>>

\* A reload that changes the filter of a group.
ReloadFilter ==
    \E g \in Groups : \E f \in Filters :
       ReloadSpawn(g, [feeds[g].settings EXCEPT !.filter = f])

\* A reload that changes the update keys of a group.
ReloadKeys ==
    \E g \in Groups : \E k \in UpdateKeySets :
       ReloadSpawn(g, [feeds[g].settings EXCEPT !.update_keys = k])

\* A reload that changes the interval of a group.
ReloadInterval ==
    \E g \in Groups : \E i \in Intervals :
       ReloadSpawn(g, [feeds[g].settings EXCEPT !.interval = i])

\* worker.rs:56-59: the hashes of the groups of the live config
feed_hashes(f) == {g \in Groups : f[g].live}

\* worker.rs:51-63 then 65-91: the config file changed and no longer lists
\* group g; the tasks of the remaining groups are spawned.
ReloadRemove(g) ==
    /\ phase = "sleep"
    /\ reloads < MaxReloads
    /\ feeds[g].live
    /\ reloads' = reloads + 1
    /\ feeds' = [feeds EXCEPT ![g].live = FALSE]
    /\ phase' = "tasks"
    /\ task' = Spawned(feeds')
    /\ UNCHANGED <<trackerVars, race, call>>
    /\ UNCHANGED <<now, keep_old, feed_groups, feed_items, failures, last_feed, reloaded>>

\* worker.rs:47-52: the metadata of the config file cannot be read, or
\* load_config returns an error; `?` returns the error from Worker::run,
\* lib.rs returns it from run and main.rs from main.
ReloadFails ==
    /\ phase = "sleep"
    /\ phase' = "exited"
    /\ UNCHANGED <<trackerVars, race, call>>
    /\ UNCHANGED <<now, feeds, keep_old, feed_groups, feed_items, failures, task, last_feed, reloaded, reloads>>

\* worker.rs:65-97: the task of g panics; its transaction, if any, is dropped
\* with it, nothing is recorded, and join_next returns the JoinError.
Panic(g) ==
    /\ Running(g)
    /\ task' = [task EXCEPT ![g] = [Idle EXCEPT !.pc = "done", !.status = task[g].status,
                                                !.error = "panicked"]]
    /\ UNCHANGED <<trackerVars, race, call>>
    /\ UNCHANGED <<now, phase, feeds, keep_old, feed_groups, feed_items, failures, last_feed, reloaded, reloads>>

\* Mutant of JoinSleep: the loop goes on as soon as one task has ended.
JoinSleep_first(failing_ok, groups_ok, failures_ok) ==
    /\ phase = "tasks"
    /\ \E g \in Groups : ~Running(g)
    /\ now < MaxTime
    /\ \E send_ok \in BOOLEAN :
          tracker' = IF failing_ok
                     THEN record(tracker, get_failing_feeds(failures, feeds, Groups),
                                 send_ok).tracker
                     ELSE tracker
    /\ \E t_groups \in {now, now + 1} : \E t_failures \in {t_groups, now + 1} :
          /\ feed_groups' = IF groups_ok
                            THEN delete_old_groups_except(feed_groups, t_groups, keep_old,
                                                          feed_hashes(feeds))
                            ELSE feed_groups
          /\ failures' = IF failures_ok
                         THEN delete_old_failures(failures, t_failures, keep_old)
                         ELSE failures
          /\ now' = t_failures + 1
    /\ now' <= MaxTime
    /\ feed_items' = IF groups_ok THEN cascade_items(feed_groups', feed_items)
                     ELSE feed_items
    /\ phase' = "sleep"
    /\ UNCHANGED <<feeds, keep_old, task, last_feed, reloaded, reloads, ticks, race, call>>

\* Mutant of JoinSleep: a task that ended with an error or a panic stops the
\* loop before the tracker tick and the housekeeping.
JoinSleep_strict(failing_ok, groups_ok, failures_ok) ==
    /\ phase = "tasks"
    /\ \A g \in Groups : ~Running(g) /\ task[g].error = ""
    /\ now < MaxTime
    /\ \E send_ok \in BOOLEAN :
          tracker' = IF failing_ok
                     THEN record(tracker, get_failing_feeds(failures, feeds, Groups),
                                 send_ok).tracker
                     ELSE tracker
    /\ \E t_groups \in {now, now + 1} : \E t_failures \in {t_groups, now + 1} :
          /\ feed_groups' = IF groups_ok
                            THEN delete_old_groups_except(feed_groups, t_groups, keep_old,
                                                          feed_hashes(feeds))
                            ELSE feed_groups
          /\ failures' = IF failures_ok
                         THEN delete_old_failures(failures, t_failures, keep_old)
                         ELSE failures
          /\ now' = t_failures + 1
    /\ now' <= MaxTime
    /\ feed_items' = IF groups_ok THEN cascade_items(feed_groups', feed_items)
                     ELSE feed_items
    /\ phase' = "sleep"
    /\ UNCHANGED <<feeds, keep_old, task, last_feed, reloaded, reloads, ticks, race, call>>

\* worker.rs:93-139: join the tasks, hand the failing groups to the tracker,
\* purge the old groups and failures, then sleep one minute.  The arguments
\* say whether get_failing_feeds, delete_old_groups and delete_old_failures
\* return Ok; an error is logged: the tracker is then not ticked, the rows
\* are left.  Each purge reads the clock itself (db.rs:19, 182), after the
\* last task has ended: t_groups and t_failures are the minute of the join
\* or the next one, and the sleep of one minute starts after the later.
JoinSleep(failing_ok, groups_ok, failures_ok) ==
    /\ phase = "tasks"
    /\ \A g \in Groups : ~Running(g)
    /\ now < MaxTime
    /\ \E send_ok \in BOOLEAN :
          tracker' = IF failing_ok
                     THEN record(tracker, get_failing_feeds(failures, feeds, Groups),
                                 send_ok).tracker
                     ELSE tracker
    /\ \E t_groups \in {now, now + 1} : \E t_failures \in {t_groups, now + 1} :
          /\ feed_groups' = IF groups_ok
                            THEN delete_old_groups_except(feed_groups, t_groups, keep_old,
                                                          feed_hashes(feeds))
                            ELSE feed_groups
          /\ failures' = IF failures_ok
                         THEN delete_old_failures(failures, t_failures, keep_old)
                         ELSE failures
          /\ now' = t_failures + 1
    /\ now' <= MaxTime
    /\ feed_items' = IF groups_ok THEN cascade_items(feed_groups', feed_items)
                     ELSE feed_items
    /\ phase' = "sleep"
    /\ UNCHANGED <<feeds, keep_old, task, last_feed, reloaded, reloads, ticks, race, call>>

\* ------------------------------------------------------------------------
\* The failure tracker on its own (worker.rs:61, 99-121)
\* ------------------------------------------------------------------------
\* worker.rs:61: a reload hands the tracker the operator's mailboxes
SetReportTo(report_to) ==
    /\ report_to # tracker.report_to
    /\ tracker' = set_report_to(tracker, report_to)
    /\ UNCHANGED <<ticks, loopVars, race, call>>

\* ------------------------------------------------------------------------
\* Several processes claim the same group (db.rs try_check_feed_group in
\* the transactions of worker.rs:148-155, 272)
\*
\* The statement is an INSERT ... ON CONFLICT DO UPDATE: it locks the row of
\* the group (or the key it inserts) until its transaction ends, and a
\* statement that finds the row locked waits, then works on the row as the
\* holder left it.
\* ------------------------------------------------------------------------
Procs == {"p1", "p2", "p3"}

NoTx == [pc |-> "idle", t |-> 0, status |-> "", row |-> NoGroup, ended |-> ""]

\* `row` is the committed feed_groups row, `init` the row before any call,
\* `lock` the process whose transaction holds the row.
NoRace == [clock |-> 1, interval |-> 1, init |-> NoGroup, row |-> NoGroup,
           lock |-> "none", tx |-> [p \in Procs |-> NoTx]]

\* A row a committed cycle left at time 1.
OldRow == [NoGroup EXCEPT !.present = TRUE, !.last_check = 1, !.last_seen = 1]

RaceStart ==
    \E i \in Intervals : \E r \in {NoGroup, OldRow} :
       race = [NoRace EXCEPT !.interval = i, !.init = r, !.row = r]

RaceTick ==
    /\ race.clock < MaxRaceTime
    /\ race' = [race EXCEPT !.clock = @ + 1]
    /\ UNCHANGED <<loopVars, trackerVars, call>>

\* db.rs:65-66: the caller reads the clock, then sends the statement
RaceIssue(p) ==
    /\ race.tx[p].pc = "idle"
    /\ race' = [race EXCEPT !.tx[p].pc = "issued", !.tx[p].t = race.clock]
    /\ UNCHANGED <<loopVars, trackerVars, call>>

\* Mutant of RaceExecute: the statement does not wait for the row.
RaceExecute_unlocked(p) ==
    /\ race.tx[p].pc = "issued"
    /\ LET r == try_check_feed_group(race.row, race.tx[p].t, race.interval) IN
       race' = [race EXCEPT !.lock = p, !.tx[p].pc = "returned",
                            !.tx[p].status = r.status, !.tx[p].row = r.row]
    /\ UNCHANGED <<loopVars, trackerVars, call>>

\* db.rs:68-91: the statement runs once no other transaction holds the row
RaceExecute(p) ==
    /\ race.tx[p].pc = "issued"
    /\ race.lock = "none"
    /\ LET r == try_check_feed_group(race.row, race.tx[p].t, race.interval) IN
       race' = [race EXCEPT !.lock = p, !.tx[p].pc = "returned",
                            !.tx[p].status = r.status, !.tx[p].row = r.row]
    /\ UNCHANGED <<loopVars, trackerVars, call>>

\* worker.rs:272: the transaction of a claimed cycle commits
RaceCommit(p) ==
    /\ race.tx[p].pc = "returned"
    /\ race.tx[p].status # "wait"
    /\ race' = [race EXCEPT !.lock = "none", !.row = race.tx[p].row,
                            !.tx[p].pc = "done", !.tx[p].ended = "commit"]
    /\ UNCHANGED <<loopVars, trackerVars, call>>

\* worker.rs:152-155 (a wait returns) or an error after the claim: the
\* transaction is dropped
RaceRollback(p) ==
    /\ race.tx[p].pc = "returned"
    /\ race' = [race EXCEPT !.lock = "none",
                            !.tx[p].pc = "done", !.tx[p].ended = "rollback"]
    /\ UNCHANGED <<loopVars, trackerVars, call>>

NextRace ==
    \/ RaceTick
    \/ \E p \in Procs :
          \/ RaceIssue(p)
          \/ RaceExecute(p)
          \/ RaceCommit(p)
          \/ RaceRollback(p)

\* ------------------------------------------------------------------------
\* Specifications: one configured group, an empty database
\* ------------------------------------------------------------------------
InitLoop(S) ==
    /\ now = 1
    /\ phase = "sleep"
    /\ keep_old = BaseSettings.keep_old
    /\ \E s \in S :
          feeds = [g \in Groups |-> IF g = "g1" THEN [live |-> TRUE, settings |-> s]
                                    ELSE NotConfigured]
    /\ feed_groups = [g \in Groups |-> NoGroup]
    /\ feed_items = [g \in Groups |-> {}]
    /\ failures = [g \in Groups |-> NoFailure]
    /\ task = [g \in Groups |-> Idle]
    /\ last_feed = [g \in Groups |-> NoFeed]
    /\ reloaded = [g \in Groups |-> FALSE]
    /\ reloads = 0

\* The loop and the tracker before the first cycle; the functions of
\* config.rs and render.rs are called on the inputs of `calls`.
InitCalls(S, calls) ==
    /\ InitLoop(S)
    /\ tracker = FailureTracker_new
    /\ ticks = NoTicks
    /\ race = NoRace
    /\ call \in calls

InitWith(S) ==
    /\ InitLoop(S)
    /\ call = NoCall
    /\ tracker = FailureTracker_new
    /\ ticks = NoTicks
    /\ race = NoRace

Init == InitWith(SchedSettings)

InitReload == InitWith(CriteriaSettings)

InitMail == InitWith(MailSettings)
InitNoRetention == InitWith(NoRetentionSettings)

InitRace ==
    /\ InitLoop({BaseSettings})
    /\ call = NoCall
    /\ tracker = FailureTracker_new
    /\ ticks = NoTicks
    /\ RaceStart

\* Two configured groups; the global keep_old is shorter than a cycle or not.
InitGroups ==
    /\ now = 1
    /\ phase = "sleep"
    /\ keep_old \in GlobalKeepOlds
    /\ call = NoCall
    /\ feeds = [g \in Groups |-> [live |-> TRUE, settings |-> BaseSettings]]
    /\ feed_groups = [g \in Groups |-> NoGroup]
    /\ feed_items = [g \in Groups |-> {}]
    /\ failures = [g \in Groups |-> NoFailure]
    /\ task = [g \in Groups |-> Idle]
    /\ last_feed = [g \in Groups |-> NoFeed]
    /\ reloaded = [g \in Groups |-> FALSE]
    /\ reloads = 0
    /\ tracker = FailureTracker_new
    /\ ticks = NoTicks
    /\ race = NoRace

\* The steps of the tasks of groups that have a recipient.
TaskStep ==
    \E g \in Groups :
       \/ Touch(g)
       \/ Claim(g)
       \/ Fetch(g)
       \/ CheckItems(g)
       \/ NoMails(g)
       \/ SendMails(g)
       \/ SendFails(g)
       \/ Finish(g)
       \/ Abort(g)
       \/ ErrorIgnored(g)
       \/ ErrorNotWaiting(g)
       \/ ErrorRecorded(g)

\* The config file does not change after startup.
NextFixed ==
    \/ Tick
    \/ Spawn
    \/ \E failing_ok, groups_ok, failures_ok \in BOOLEAN :
          JoinSleep(failing_ok, groups_ok, failures_ok)
    \/ TaskStep

\* The same where the store may fail before the claim and the interval may
\* change between cycles.
NextErrors ==
    \/ NextFixed
    \/ \E g \in Groups : AbortEarly(g)
    \/ ReloadInterval

\* The filter may change between cycles.
NextFilter ==
    \/ NextFixed
    \/ ReloadFilter

\* The same where a group may have no recipient.
NextMail ==
    \/ NextFilter
    \/ \E g \in Groups : SkipSend(g)

\* The update keys and the filter may change between cycles.
Next ==
    \/ NextFilter
    \/ ReloadKeys

\* A group leaves the config, a reload fails, a task panics.  The two groups
\* are interchangeable: g2 is the one that leaves, g1 the one that panics.
\* The query of the failing groups and the purge of the groups may fail.
NextGroups ==
    \/ Spawn
    \/ \E failing_ok, groups_ok \in BOOLEAN : JoinSleep(failing_ok, groups_ok, TRUE)
    \/ TaskStep
    \/ ReloadRemove("g2")
    \/ ReloadFails
    \/ Panic("g1")

\* The failure tracker alone: any failing set at any tick.
NextTracker ==
    \/ \E f \in FailureLists : \E ok \in BOOLEAN : TrackerTick(f, ok)
    \/ \E r \in SUBSET Operators : SetReportTo(r)

\* Cadence and retention vary, the config file is not touched.
Spec == Init /\ [][NextFixed]_vars

\* Cadence and retention vary and the cadence is changed by reloads; any
\* step of process_feed may fail.
SpecErrors == Init /\ [][NextErrors /\ now' <= MaxErrorTime]_vars

\* The matching criteria vary and are changed by reloads.
SpecReload == InitReload /\ [][Next /\ now' <= MaxReloadTime]_vars

\* The same with items that are kept for no time.
SpecNoRetention == InitNoRetention /\ [][Next /\ now' <= MaxReloadTime]_vars

\* The mail settings vary, the filter is changed by reloads.
SpecMail == InitMail /\ [][NextMail /\ now' <= MaxMailTime]_vars

\* The failure tracker under every sequence of failing sets, recipients and
\* transport answers.
SpecTracker == InitWith({BaseSettings}) /\ [][NextTracker]_vars

\* The feeds of both groups carry the same single entry.
ShortFeeds == \A g \in Groups : task'[g].pc = "fetched" => task'[g].feed \in GroupFeeds

\* The calls of Renderer::filter that are made: no filter or one of
\* FilterTrees, on an item context.
FilterCalls ==
    [fn : {"filter"}, filter : {<<>>} \cup {<<f>> : f \in FilterTrees}, ctx : Contexts,
     result : {"pending"}]

InitFilter == InitCalls({BaseSettings}, FilterCalls)

\* render.rs:123-127: Renderer::filter returns.
CallFilter ==
    /\ call.fn = "filter"
    /\ call.result = "pending"
    /\ call' = [call EXCEPT !.result = Renderer_filter(call.filter, call.ctx)]
    /\ UNCHANGED <<loopVars, trackerVars, race>>

\* The filter alone: any filter on any item.
SpecFilter == InitFilter /\ [][CallFilter]_vars

\* Two feed entries are resolved.
ResolveCalls == [fn : {"resolve"}, a : FeedConfigs, b : FeedConfigs, result : {<<>>}]

InitHash == InitCalls({BaseSettings}, ResolveCalls)

\* config.rs:284-360: FeedConfig::resolve returns for both entries.
CallResolve ==
    /\ call.fn = "resolve"
    /\ call.result = <<>>
    /\ call' = [call EXCEPT !.result = <<resolve(call.a), resolve(call.b)>>]
    /\ UNCHANGED <<loopVars, trackerVars, race>>

\* The hashes alone: any two feed entries.
SpecHash == InitHash /\ [][CallResolve]_vars

\* A config file is loaded.
LoadCalls == [fn : {"load_config"}, entries : ConfigFiles, result : {<<>>}]

InitLoad == InitCalls({BaseSettings}, LoadCalls)

\* config.rs:37-69: load_config returns.
CallLoadConfig ==
    /\ call.fn = "load_config"
    /\ call.result = <<>>
    /\ call' = [call EXCEPT !.result = <<load_config(call.entries)>>]
    /\ UNCHANGED <<loopVars, trackerVars, race>>

\* The loading alone: any list of feed entries.
SpecLoad == InitLoad /\ [][CallLoadConfig]_vars

InitUpdateHash == InitCalls({BaseSettings}, UpdateHashCalls)

\* render.rs:108-121: Renderer::update_hash returns for two items.
CallUpdateHash ==
    /\ call.fn = "update_hash"
    /\ call.result = <<>>
    /\ call' = [call EXCEPT !.result =
                   <<Renderer_update_hash(call.a), Renderer_update_hash(call.b)>>]
    /\ UNCHANGED <<loopVars, trackerVars, race>>

\* The update hash alone: the values of the update keys of any two items.
SpecUpdateHash == InitUpdateHash /\ [][CallUpdateHash]_vars

InitSort == InitCalls({BaseSettings}, SortCalls)

\* worker.rs:200-202: the new items are put in the order of emission.
CallSort ==
    /\ call.fn = "sort"
    /\ call.result = <<>>
    /\ call' = [call EXCEPT !.result =
                   <<sort_new_items(call.sort_by_last_modified, call.new_items)>>]
    /\ UNCHANGED <<loopVars, trackerVars, race>>

\* The ordering of the new items alone.
SpecSort == InitSort /\ [][CallSort]_vars

InitFetch == InitCalls({BaseSettings}, FetchCalls)

\* worker.rs:159-198: the URLs of a group are fetched and the items checked.
CallFetch ==
    /\ call.fn = "fetch"
    /\ call.result = <<>>
    /\ call' = [call EXCEPT !.result =
                   <<fetch_and_check(call.settings, call.urls, call.served, call.items,
                                     call.clock)>>]
    /\ UNCHANGED <<loopVars, trackerVars, race>>

\* The fetch and the item loop of one cycle alone.
SpecFetch == InitFetch /\ [][CallFetch]_vars

InitSend == InitCalls({BaseSettings}, SendCalls)

\* email.rs:21-67: send_email_with_backoff returns.
CallSend ==
    /\ call.fn = "send"
    /\ call.result = <<>>
    /\ call' = [call EXCEPT !.result =
                   <<send_email_with_backoff(call.recipients, call.mails, call.answers)>>]
    /\ UNCHANGED <<loopVars, trackerVars, race>>

\* The sending alone: any list of mails, any answers of the transport.
SpecSend == InitSend /\ [][CallSend]_vars

\* Two groups side by side; groups are removed, reloads fail, tasks panic.
SpecGroups == InitGroups /\ [][NextGroups /\ now' <= MaxGroupTime /\ ShortFeeds]_vars

\* Processes racing for one group.
SpecRace == InitRace /\ [][NextRace]_vars

\* ------------------------------------------------------------------------
\* Properties
\* ------------------------------------------------------------------------

\* The task of g takes the step that runs try_check_feed_group.
Claims(g) == task[g].pc = "touched" /\ task'[g].pc # "touched"

\* The transaction of the last cycle of g committed.
Committed(g) ==
    task[g].pc = "done" /\ task[g].error = "" /\ task[g].status \notin {"", "Wait"}

\* C1: try_check_feed_group called at time `now` with interval I answers
\* new when the group has no row, and then inserts one with last_check and
\* last_seen set to now; answers update when the row's last_check is before
\* now - I, and then sets last_check to now and nothing else; and answers
\* wait when last_check is at or after now - I, and then leaves the row as
\* it is.
C1_TryCheckFeedGroup ==
    [][\A g \in Groups :
          Claims(g) =>
             LET row == feed_groups[g]
                 cutoff == now - feeds[g].settings.interval
                 t == task'[g]
             IN /\ ~row.present =>
                      /\ t.status = "NewFeed"
                      /\ t.row.present
                      /\ t.row.last_check = now
                      /\ t.row.last_seen = now
                /\ (row.present /\ row.last_check < cutoff) =>
                      /\ t.status = "Update"
                      /\ t.row = [row EXCEPT !.last_check = now]
                /\ (row.present /\ row.last_check >= cutoff) =>
                      /\ t.status = "Wait"
                      /\ t.pc = "done"
                      /\ feed_groups'[g] = row
    ]_vars

\* C1, its case: a due group was claimed as an update at this instant.
C1_Witness ==
    \E g \in Groups :
       /\ task[g].pc = "claimed"
       /\ task[g].status = "Update"
       /\ task[g].row.last_check = now
       /\ feed_groups[g].present
       /\ feed_groups[g].last_check < now - feeds[g].settings.interval

\* Definitions for the race of several callers.
RaceEnded == \A p \in Procs : race.tx[p].pc = "done"

Winners == {p \in Procs : race.tx[p].status \in {"new", "update"}}

WinnersCommit == \A p \in Winners : race.tx[p].ended = "commit"

WithinOneInterval ==
    \A p, q \in Procs : race.tx[p].t - race.tx[q].t <= race.interval

DueAtCall(p) ==
    \/ ~race.init.present
    \/ race.init.last_check < saturating_sub_datetime(race.tx[p].t, race.interval)

\* C2 as stated: of concurrent calls for one group issued within one
\* interval, each of which commits, exactly one gets new or update and all
\* the others get wait.
C2_ExactlyOneWinner ==
    (RaceEnded /\ WinnersCommit /\ WithinOneInterval) => Cardinality(Winners) = 1

\* C2, amended: of concurrent calls for one group issued within one
\* interval, each of which commits, at most one gets new or update and all
\* the others get wait; one does exactly when the group is due for at least
\* one of the calls (it has no row, or its last_check is before that call's
\* cutoff), and otherwise every call gets wait.
C2_AtMostOneWinner ==
    (RaceEnded /\ WinnersCommit /\ WithinOneInterval) =>
       /\ Cardinality(Winners) <= 1
       /\ \A p \in Procs \ Winners : race.tx[p].status = "wait"
       /\ (Cardinality(Winners) = 1 <=> \E p \in Procs : DueAtCall(p))

\* C2, its case: three calls at three instants within one interval raced for
\* an existing row, one claimed it and committed, the others waited.
C2_Witness ==
    /\ RaceEnded /\ WinnersCommit /\ WithinOneInterval
    /\ race.init.present
    /\ Cardinality(Winners) = 1
    /\ \E p, q \in Procs : race.tx[p].t < race.tx[q].t

\* C3 as stated: a committed cycle that fetched what the last committed
\* cycle of the group had fetched, under the same config, has no new item and
\* builds no mail.
C3_DedupIdempotence ==
    \A g \in Groups :
       (Committed(g) /\ task[g].repeat) => task[g].new_items = <<>>

\* C4 as stated: the committed cycle that finds the criteria changed emits
\* every item of the fetch that passes the new filter, once per update hash,
\* whatever feed_items held; and a committed cycle that then fetches the
\* same again under the same config emits none of them again.
C4_CriteriaReset ==
    \A g \in Groups :
       LET t == task[g]
           s == feeds[g].settings
       IN /\ (t.pc = "mailed" /\ t.status = "NewCriteria") =>
                /\ \A i \in 1..Len(t.feed) :
                      filter(s, t.feed[i]) =>
                         \E j \in 1..Len(t.new_items) :
                            update_hash(s, t.new_items[j]) = update_hash(s, t.feed[i])
                /\ \A j \in 1..Len(t.new_items) : filter(s, t.new_items[j])
                /\ \A j, k \in 1..Len(t.new_items) :
                      j # k => update_hash(s, t.new_items[j]) # update_hash(s, t.new_items[k])
          /\ (Committed(g) /\ t.repeat /\ feed_groups[g].criteria_hash = criteria_hash(g, s)) =>
                t.new_items = <<>>

\* C5: the claim of a cycle answers new-criteria exactly when the group has
\* a row whose persisted criteria_hash differs from the criteria_hash of the
\* live config.
C5_NewCriteria ==
    [][\A g \in Groups :
          Claims(g) =>
             LET row == feed_groups[g]
                 live == criteria_hash(g, feeds[g].settings)
             IN (task'[g].status = "NewCriteria") <=>
                   (row.present /\ row.criteria_hash # live)
    ]_vars

\* C5, its case: a group that was not due was claimed because its criteria
\* changed.
C5_Witness ==
    \E g \in Groups :
       /\ task[g].pc = "claimed"
       /\ task[g].status = "NewCriteria"
       /\ feed_groups[g].present
       /\ feed_groups[g].criteria_hash # criteria_hash(g, feeds[g].settings)
       /\ feed_groups[g].last_check >= now - feeds[g].settings.interval

\* C6: a cycle with no new item builds and sends no mail; with new items it
\* builds one digest mail of all of them when the status is new or
\* new-criteria, or digest is set, or there are more new items than
\* max_mails_per_check; and otherwise (as many new items as
\* max_mails_per_check included) one item mail per new item, in order.
C6_MailMode ==
    \A g \in Groups :
       task[g].pc = "mailed" =>
          LET t == task[g]
              s == feeds[g].settings
              n == Len(t.new_items)
              digest == \/ t.status \in {"NewFeed", "NewCriteria"}
                        \/ s.digest
                        \/ n > s.max_mails_per_check
          IN /\ n = 0 => (t.mails = <<>> /\ t.sent = 0)
             /\ (n > 0 /\ digest) =>
                   /\ Len(t.mails) = 1
                   /\ t.mails[1].template = "digest"
                   /\ t.mails[1].items = t.new_items
             /\ (n > 0 /\ ~digest) =>
                   /\ Len(t.mails) = n
                   /\ \A i \in 1..n :
                         /\ t.mails[i].template = "item"
                         /\ t.mails[i].items = <<t.new_items[i]>>

\* C6, its case: an update with exactly max_mails_per_check new items sent
\* them as item mails.
C6_Witness ==
    \E g \in Groups :
       /\ task[g].pc = "mailed"
       /\ task[g].status = "Update"
       /\ ~feeds[g].settings.digest
       /\ Len(task[g].new_items) = feeds[g].settings.max_mails_per_check
       /\ Len(task[g].mails) = 2
       /\ task[g].sent = 2
       /\ task[g].mails[1].template = "item"

\* C7: the subject of a digest mail starts with "[New Feed] " exactly when
\* the status is new, with "[New Criteria] " exactly when it is
\* new-criteria, and has no prefix when the digest comes from the digest
\* setting or the cap; an item mail has no prefix.
C7_SubjectPrefix ==
    \A g \in Groups :
       task[g].pc = "mailed" =>
          \A i \in 1..Len(task[g].mails) :
             LET m == task[g].mails[i]
                 status == task[g].status
             IN /\ (m.prefix = "[New Feed] ") <=> (m.template = "digest" /\ status = "NewFeed")
                /\ (m.prefix = "[New Criteria] ") <=>
                      (m.template = "digest" /\ status = "NewCriteria")
                /\ (m.template = "item" \/ status = "Update") => m.prefix = ""

\* C7, its case: an update sent a digest, which has no prefix.
C7_Witness ==
    \E g \in Groups :
       /\ task[g].pc = "mailed"
       /\ task[g].status = "Update"
       /\ task[g].sent = 1
       /\ task[g].mails[1].template = "digest"
       /\ task[g].mails[1].prefix = ""

\* The groups whose hash the tracker holds.
StoredSet ==
    {g \in Groups : \E i \in 1..Len(tracker.failing_hash) :
                       tracker.failing_hash[i] = urls_hash(g)}

\* C8: over the consecutive ticks that are given the same failing set at
\* most one mail is sent, and a tick sends only when debounce_count is 1 and
\* the set is the stored one; a tick whose set differs from the stored one
\* sends nothing and sets debounce_count to DEBOUNCE_TIMES.
C8_Debounce ==
    /\ [](ticks.run_sent <= 1)
    /\ [][ticks'.n # ticks.n =>
             /\ ticks'.mail # "" =>
                   (tracker.debounce_count = 1 /\ ticks'.set = StoredSet)
             /\ ticks'.set # StoredSet =>
                   (ticks'.mail = "" /\ tracker'.debounce_count = DEBOUNCE_TIMES)
       ]_vars

\* C8, its case: a failing set that was reported once is seen again and
\* again, and nothing more is sent.
C8_Witness ==
    /\ ticks.set # {}
    /\ ticks.run = MaxRun
    /\ ticks.run_sent = 1
    /\ ticks.mail = ""
    /\ tracker.debounce_count = 0

\* C9 as stated: the report of a failing set is sent on the fifth
\* consecutive tick that is given the set, and on no other.
C9_FifthTick ==
    ticks.set # {} =>
       /\ ticks.mail # "" => ticks.run = 5
       /\ (ticks.run = 5 /\ ticks.rcpt /\ ticks.ok) => ticks.mail = "Error processing feeds"

\* C9, amended: the report of a failing set is sent on the sixth
\* consecutive tick that is given the set (the first tick stores the set
\* and arms the counter with 5, the next four count it down to 1, the sixth
\* sends), when there is a report recipient and the transport accepts the
\* mail; nothing is sent on an earlier tick, and a later tick sends only
\* the retry of a send the transport refused.
C9_SixthTick ==
    ticks.set # {} =>
       /\ ticks.mail # "" => (ticks.mail = "Error processing feeds" /\ ticks.run >= 6)
       /\ (ticks.run = 6 /\ ticks.rcpt /\ ticks.ok) => ticks.mail = "Error processing feeds"
       /\ (ticks.mail # "" /\ ticks.run > 6) => ticks.run_failed

\* C9, its case: the sixth tick of a failing set sent the report.
C9_Witness ==
    /\ ticks.set # {}
    /\ ticks.run = 6
    /\ ticks.mail = "Error processing feeds"

\* C10: when a non-empty failing set is followed by an empty one that stays
\* empty through the debounce, one mail is sent and it is the recovery mail
\* (there being a report recipient and a transport that accepts it); and a
\* tracker that has only ever been given the empty set sends nothing.
C10_Recovery ==
    /\ (ticks.set = {} /\ ticks.seen_nonempty) =>
          /\ (ticks.run = 6 /\ ticks.rcpt /\ ticks.ok) => ticks.mail = "All feeds are working"
          /\ ticks.mail \in {"", "All feeds are working"}
          /\ ticks.mail # "" => ticks.run >= 6
          /\ ticks.run_sent <= 1
    /\ ~ticks.seen_nonempty => ~ticks.ever_sent

\* C10, its case: the feeds recovered, the set stayed empty, the recovery
\* mail went out.
C10_Witness ==
    /\ ticks.set = {}
    /\ ticks.seen_nonempty
    /\ ticks.run = 6
    /\ ticks.run_sent = 1
    /\ ticks.mail = "All feeds are working"

\* The transaction of the task of g commits in this step.
Commits(g) == task[g].pc = "mailed" /\ task'[g].pc = "done" /\ task'[g].error = ""

\* C11: the failures row of a group changes in three ways only.  A recorded
\* failure creates it with fail_count 1, or adds exactly 1 to fail_count and
\* overwrites error and fail_time; the commit of a successful cycle, which
\* always leaves the group without a row, deletes it; and housekeeping
\* collects it.  So fail_count counts the failures recorded since the last
\* committed cycle or collection.
C11_FailuresLifecycle ==
    [][\A g \in Groups :
          /\ Commits(g) => ~failures'[g].present
          /\ failures'[g] # failures[g] =>
                \/ /\ task[g].pc = "recording"
                   /\ failures'[g] =
                         [present |-> TRUE,
                          fail_count |-> IF failures[g].present
                                         THEN failures[g].fail_count + 1 ELSE 1,
                          error |-> task[g].error,
                          fail_time |-> now]
                \/ Commits(g)
                \/ phase = "tasks" /\ phase' = "sleep" /\ ~failures'[g].present
    ]_vars

\* C11, its case: a second failure was recorded on top of the first.
C11_Witness ==
    \E g \in Groups :
       /\ failures[g].present
       /\ failures[g].fail_count = 2
       /\ failures[g].fail_time > 1
       /\ task[g].pc = "done"
       /\ task[g].error # ""


\* worker.rs:93-139: the step that joins the tasks, ticks the tracker and
\* does the housekeeping.
Joins == phase = "tasks" /\ phase' = "sleep"

\* The groups of the live config whose failures row has fail_count >= 2.
FailingLive ==
    {g \in Groups : feeds[g].live /\ failures[g].present /\ failures[g].fail_count >= 2}

\* C12: the failing set handed to the tracker on a tick, which the tracker
\* keeps as its failing_hash, is exactly the set of groups that are in the
\* live config and whose failures row has fail_count >= 2; a group with a
\* single recorded failure, or a failing group that left the live config, is
\* not part of it.  The tracker is left as it was when the query of the
\* failures fails, and no tick takes place then.
C12_FailingSet ==
    [][Joins =>
          /\ FeedsOf(get_failing_feeds(failures, feeds, Groups)) = FailingLive
          /\ tracker' = tracker \/ StoredSet' = FailingLive
          /\ \A g \in Groups :
                (failures[g].present /\ failures[g].fail_count = 1) \/ ~feeds[g].live
                   => /\ g \notin FeedsOf(get_failing_feeds(failures, feeds, Groups))
                      /\ tracker' # tracker => g \notin StoredSet'
    ]_vars

\* C12 witness: after a tick the tracker holds g1, which failed twice or more,
\* and not g2, which failed twice or more and then left the config.
C12_Witness ==
    /\ phase = "sleep"
    /\ StoredSet = {"g1"}
    /\ ~feeds["g2"].live
    /\ failures["g2"].present /\ failures["g2"].fail_count >= 2


\* worker.rs:148-272: the task of g is inside its transaction, after the claim.
InTransaction(g) == task[g].pc \in {"claimed", "fetched", "checked", "mailed"}

\* C13: no step that a task takes inside its transaction, up to and including
\* the one on which process_feed fails, changes the persisted row of the
\* group, its item rows or its failures row, so after a failure they are as
\* they were before the cycle (the last_seen touch is made before the
\* transaction begins); the step that commits persists the claimed row with
\* its last_check and last_update, the item rows and the cleared failure
\* together.
C13_TransactionAtomicity ==
    [][\A g \in Groups :
          /\ InTransaction(g) /\ ~Commits(g) =>
                /\ feed_groups'[g] = feed_groups[g]
                /\ feed_items'[g] = feed_items[g]
                /\ failures'[g] = failures[g]
          /\ task[g].pc # "error" /\ task'[g].pc = "error" => InTransaction(g)
          /\ Commits(g) =>
                /\ feed_groups'[g] = task[g].row
                /\ feed_items'[g] =
                      delete_old_items(task[g].items, now, feeds[g].settings.keep_old)
                /\ failures'[g] = NoFailure
    ]_vars

\* C13 witness: process_feed has failed after its transaction claimed the
\* cycle and wrote item rows, while a failures row exists; the persisted
\* rows differ from what the transaction held.
C13_Witness ==
    \E g \in Groups :
       /\ task[g].pc = "error"
       /\ task[g].items # feed_items[g]
       /\ task[g].row.last_check # feed_groups[g].last_check
       /\ failures[g].present


\* worker.rs:66-90: the task of g ends with an error of process_feed or with
\* a panic in this step.
Fails(g) == task[g].error = "" /\ task'[g].error # ""

\* worker.rs:66-90: the steps the task of g can take.
StepOf(g) ==
    \/ Touch(g) \/ Claim(g) \/ Fetch(g) \/ CheckItems(g) \/ NoMails(g) \/ SendMails(g)
    \/ SendFails(g) \/ Finish(g) \/ Abort(g) \/ ErrorIgnored(g) \/ ErrorNotWaiting(g)
    \/ ErrorRecorded(g)

\* C14: the step on which the task of one group fails or panics changes
\* nothing of another group's task, rows or failures and leaves the loop where
\* it is; a running task can take its next step whatever happened to the
\* others; once every task of the cycle has ended, with or without an error,
\* the join with its tracker tick and housekeeping can run, and after it the
\* next cycle can be spawned.
C14_TaskBoundary ==
    /\ [][\A g \in Groups : Fails(g) =>
             /\ phase' = phase
             /\ tracker' = tracker
             /\ \A h \in Groups \ {g} :
                   /\ task'[h] = task[h]
                   /\ feed_groups'[h] = feed_groups[h]
                   /\ feed_items'[h] = feed_items[h]
                   /\ failures'[h] = failures[h]
       ]_vars
    /\ [](\A h \in Groups : Running(h) => ENABLED StepOf(h))
    /\ [](phase = "tasks" /\ (\A g \in Groups : ~Running(g)) /\ now < MaxTime
             => ENABLED JoinSleep(TRUE, TRUE, TRUE))
    /\ [](phase = "sleep" => ENABLED Spawn)

\* C14 witness: the cycle in which the task of g1 panicked has been joined,
\* and in that cycle the task of g2 claimed its group and committed.
C14_Witness ==
    /\ phase = "sleep"
    /\ task["g1"].pc = "done" /\ task["g1"].error = "panicked"
    /\ task["g2"].pc = "done" /\ task["g2"].error = ""
    /\ task["g2"].status \in {"NewFeed", "Update"}
    /\ feed_groups["g2"].present


\* C15: when a reload of the configuration fails at the top of a cycle after
\* a successful startup load, the previously loaded config stays live and the
\* dispatch loop keeps running: once a cycle has run under the loaded config
\* the process never exits, it is always sleeping between two cycles or
\* running the tasks of one.
C15_ReloadFailureKeepsRunning ==
    (\E g \in Groups : task[g].pc = "done") => phase \in {"sleep", "tasks"}


\* C16: the housekeeping of a cycle reads the clock once for its purge of
\* the groups, at the minute of the join or the next one and before the
\* sleep ends; it deletes the row of a group exactly when its last_seen is
\* before that reading - keep_old and the group is not in the live config,
\* unless the statement fails, which leaves all rows as they were; the
\* item rows of a deleted group go with it; the row of a group of the live
\* config is left as it is whatever keep_old is; no other step deletes the
\* row of a group.
C16_GroupRetention ==
    [][/\ Joins =>
             \E t \in {now, now + 1} :
                /\ t < now'
                /\ \/ feed_groups' = feed_groups
                   \/ \A g \in Groups :
                         feed_groups[g].present =>
                            (~feed_groups'[g].present <=>
                                /\ g \notin feed_hashes(feeds)
                                /\ feed_groups[g].last_seen
                                      < saturating_sub_datetime(t, keep_old))
       /\ \A g \in Groups :
             /\ Joins /\ feed_groups[g].present =>
                   /\ ~feed_groups'[g].present => feed_items'[g] = {}
                   /\ feed_groups'[g].present =>
                         feed_groups'[g] = feed_groups[g] /\ feed_items'[g] = feed_items[g]
                   /\ g \in feed_hashes(feeds) => feed_groups'[g].present
             /\ feed_groups[g].present /\ ~feed_groups'[g].present => Joins
    ]_vars

\* C16 witness: housekeeping ran with a keep_old shorter than the cycle; the
\* row of g2, which had committed a cycle and then left the config, is gone
\* with its items, and the row of g1, which is in the live config, was last
\* seen before the cutoff of every clock that housekeeping could have read
\* and is still there.
C16_Witness ==
    /\ phase = "sleep"
    /\ ~feeds["g2"].live /\ last_feed["g2"] # NoFeed
    /\ ~feed_groups["g2"].present /\ feed_items["g2"] = {}
    /\ feeds["g1"].live /\ feed_groups["g1"].present
    /\ feed_groups["g1"].last_seen < saturating_sub_datetime(now - 2, keep_old)
    /\ feed_items["g1"] # {}


\* Renderer::filter was called with a filter and has returned.
Called == call.fn = "filter" /\ call.result # "pending" /\ call.filter # <<>>
\* render.rs:123-127: the filter of the call
CalledFilter == call.filter[1]

\* The outcome of the i-th clause of the called filter on the called item.
ClauseOutcome(i) == evaluate(CalledFilter.clauses[i], call.ctx)

\* C17: on every item, And of no clause is true and Or of no clause is false;
\* Not of Not of a filter has the outcome of that filter, error included; And
\* is false when a clause is false and all clauses before it are true,
\* whatever the later clauses would give, an error included; Or is true when a
\* clause is true and all clauses before it are false, whatever the later
\* clauses would give; no filter at all accepts the item.
C17_FilterAlgebra ==
    /\ call.fn = "filter" /\ call.result # "pending" /\ call.filter = <<>> =>
          call.result = "true"
    /\ Called =>
          /\ CalledFilter = And(<<>>) => call.result = "true"
          /\ CalledFilter = Or(<<>>) => call.result = "false"
          /\ evaluate(Not(Not(CalledFilter)), call.ctx) = call.result
          /\ CalledFilter.kind = "And" =>
                \A i \in 1..Len(CalledFilter.clauses) :
                   /\ ClauseOutcome(i) = "false"
                   /\ \A j \in 1..(i - 1) : ClauseOutcome(j) = "true"
                   => call.result = "false"
          /\ CalledFilter.kind = "Or" =>
                \A i \in 1..Len(CalledFilter.clauses) :
                   /\ ClauseOutcome(i) = "true"
                   /\ \A j \in 1..(i - 1) : ClauseOutcome(j) = "false"
                   => call.result = "true"

\* C17 witness: And was called with a false clause followed by a clause that
\* fails, and answered false.
C17_Witness ==
    /\ Called
    /\ CalledFilter.kind = "And" /\ Len(CalledFilter.clauses) = 2
    /\ ClauseOutcome(1) = "false" /\ ClauseOutcome(2) = "error"
    /\ call.result = "false"

\* C18: TitleRegex is true iff the item has a title and the pattern matches
\* it; BodyRegex is true iff the pattern matches the summary, if there is
\* one, or the body of the content, if there is one; Regex is true iff the
\* pattern matches one of title, summary and content body among those
\* present.  A match in the summary or the content body only does not make
\* TitleRegex true, a match in the title only does not make BodyRegex true.
C18_RegexScoping ==
    Called /\ CalledFilter.kind \in {"TitleRegex", "BodyRegex", "Regex"} =>
       LET re == CalledFilter.pattern
           title == call.ctx.title
           summary == call.ctx.summary
           content == call.ctx.content
           inTitle == title # <<>> /\ is_match(re, title[1])
           inSummary == summary # <<>> /\ is_match(re, summary[1])
           inBody == content # <<>> /\ content[1].body # <<>> /\ is_match(re, content[1].body[1])
       IN /\ call.result \in {"true", "false"}
          /\ CalledFilter.kind = "TitleRegex" => (call.result = "true" <=> inTitle)
          /\ CalledFilter.kind = "BodyRegex" => (call.result = "true" <=> inSummary \/ inBody)
          /\ CalledFilter.kind = "Regex" =>
                (call.result = "true" <=> inTitle \/ inSummary \/ inBody)

\* C18 witness: TitleRegex was called on an item without a title whose
\* summary and content body match the pattern, and answered false.
C18_Witness ==
    /\ Called
    /\ CalledFilter = Leaf("TitleRegex", "^Rust")
    /\ call.ctx = [id |-> "a", title |-> <<>>, summary |-> <<"Rustacean">>,
                   content |-> <<[body |-> <<"Rust">>]>>]
    /\ call.result = "false"


\* FeedConfig::resolve has returned for two feed entries.
Resolved == call.fn = "resolve" /\ call.result # <<>>

\* C19: the urls_hash values of two feed entries are equal iff their ordered
\* URL lists are equal, and their criteria_hash values are equal iff the URL
\* lists, the update-key lists and the filters are all equal, whatever their
\* other settings are; the criteria_hash of an entry without filter is built
\* from the all-zero digest in the place of the filter's.
C19_HashStability ==
    Resolved =>
       LET a == call.a
           b == call.b
           ra == call.result[1]
           rb == call.result[2]
       IN /\ ra.urls_hash = rb.urls_hash <=> a.urls = b.urls
          /\ ra.criteria_hash = rb.criteria_hash <=>
                a.urls = b.urls /\ a.update_keys = b.update_keys /\ a.filter = b.filter
          /\ a.filter = <<>> =>
                ra.criteria_hash =
                   hash(digest_bytes(ra.urls_hash)
                           \o digest_bytes(hash(update_each(a.update_keys)))
                           \o digest_bytes(ZeroHash))

\* C19 witness: two entries with the same URLs in another order, the same
\* update keys and no filter, and different intervals were resolved; their
\* hashes differ.
C19_Witness ==
    /\ Resolved
    /\ call.a.urls = <<"a", "b">> /\ call.b.urls = <<"b", "a">>
    /\ call.a.update_keys = call.b.update_keys
    /\ call.a.filter = <<>> /\ call.b.filter = <<>>
    /\ call.a.interval # call.b.interval
    /\ call.result[1].urls_hash # call.result[2].urls_hash
    /\ call.result[1].criteria_hash # call.result[2].criteria_hash


\* load_config has returned.
Loaded == call.fn = "load_config" /\ call.result # <<>>

\* Two feed entries of the loaded file have the same ordered URL list.
DuplicateUrls ==
    \E i, j \in 1..Len(call.entries) : i < j /\ call.entries[i].urls = call.entries[j].urls

\* C20: load_config returns an error and no config whenever two feed entries
\* have the same urls_hash, which is when they have the same ordered URL
\* list; in every config it returns the urls_hash values of the groups are
\* pairwise distinct.
C20_UniqueUrlsHash ==
    Loaded =>
       LET r == call.result[1] IN
       /\ DuplicateUrls <=>
             \E i, j \in 1..Len(call.entries) :
                i < j /\ resolve(call.entries[i]).urls_hash = resolve(call.entries[j]).urls_hash
       /\ DuplicateUrls => ~r.ok /\ r.feeds = <<>> /\ r.error # ""
       /\ r.ok =>
             /\ Len(r.feeds) = Len(call.entries)
             /\ \A i, j \in 1..Len(r.feeds) :
                   i # j => r.feeds[i].urls_hash # r.feeds[j].urls_hash

\* C20 witness: a file whose first and third entries have the same URL list
\* and different filters, with a permutation of that list between them, was
\* refused.
C20_Witness ==
    /\ Loaded
    /\ Len(call.entries) = 3
    /\ call.entries[1].urls = <<"a", "b">> /\ call.entries[2].urls = <<"b", "a">>
    /\ call.entries[3].urls = <<"a", "b">>
    /\ call.entries[1].filter # call.entries[3].filter
    /\ ~call.result[1].ok /\ call.result[1].urls = <<"a", "b">>


\* send_email_with_backoff was called for a group with recipients and has
\* returned.
Sent == call.fn = "send" /\ call.result # <<>> /\ call.recipients

\* email.rs:45-64: what the transport was asked during the call
SendLog == call.result[1].log

\* C21: each mail is attempted at most three times and not again after the
\* transport accepted it; the attempts go through the mails in list order, a
\* mail being tried only when every mail before it was accepted; the call
\* fails exactly when the third attempt of a mail fails, that attempt is then
\* the last one made, and otherwise every mail was accepted.
C21_SendAttempts ==
    Sent =>
       /\ \A j \in 1..Len(SendLog) :
             /\ SendLog[j].attempt \in 1..3
             /\ SendLog[j].sent = call.answers[j]
             /\ j < Len(SendLog) =>
                   IF SendLog[j].sent
                   THEN SendLog[j + 1].mail = SendLog[j].mail + 1 /\ SendLog[j + 1].attempt = 1
                   ELSE /\ SendLog[j].attempt < 3
                        /\ SendLog[j + 1].mail = SendLog[j].mail
                        /\ SendLog[j + 1].attempt = SendLog[j].attempt + 1
       /\ SendLog # <<>> => SendLog[1].mail = 1 /\ SendLog[1].attempt = 1
       /\ ~call.result[1].ok <=>
             /\ SendLog # <<>>
             /\ ~SendLog[Len(SendLog)].sent /\ SendLog[Len(SendLog)].attempt = 3
       /\ call.result[1].ok =>
             \A m \in 1..Len(call.mails) :
                \E j \in 1..Len(SendLog) : SendLog[j].mail = m /\ SendLog[j].sent

\* C21 witness: of two mails the first was accepted at its second attempt and
\* the second was refused three times; the call failed.
C21_Witness ==
    /\ Sent
    /\ Len(call.mails) = 2
    /\ Len(SendLog) = 5
    /\ SendLog[2].sent /\ SendLog[2].mail = 1
    /\ ~call.result[1].ok

\* C22: the sleeps between the attempts of one mail are 1 s after the first
\* failed attempt and 2 s after the second.
C22_Backoff ==
    Sent =>
       \A j \in 1..Len(SendLog) :
          /\ ~SendLog[j].sent /\ SendLog[j].attempt = 1 => SendLog[j].slept = 1
          /\ ~SendLog[j].sent /\ SendLog[j].attempt = 2 => SendLog[j].slept = 2


\* C23 as stated: a group with no recipient never has a mail handed to the
\* transport; its cycle with new items goes on past the send without an
\* error, and its commit stores a row for every new item, leaves no
\* failures row and ends the task without an error.  With keep_old 0 the
\* commit stores no row for an item upserted before the minute of the
\* commit (delete_old_items, worker.rs:270).
C23_NoRecipients ==
    [][\A g \in Groups :
          ~feeds[g].settings.recipients =>
             /\ task'[g].sent = 0
             /\ task'[g].error # "send failed"
             /\ (task[g].pc = "checked" /\ task[g].new_items # <<>>
                   /\ task'[g].pc \notin {"checked", "error"}) =>
                   (task'[g].pc = "mailed" /\ task'[g].new_items = task[g].new_items)
             /\ (Commits(g) /\ task[g].new_items # <<>>) =>
                   /\ \A i \in 1..Len(task[g].new_items) :
                         HasItem(feed_items'[g],
                                 update_hash(feeds[g].settings, task[g].new_items[i]))
                   /\ failures'[g] = NoFailure
                   /\ feed_groups'[g].present]_vars


\* The fetch and the item loop of a cycle have run.
Fetched == call.fn = "fetch" /\ call.result # <<>>

\* The place of a URL in the configured list (worker.rs:163 feed_group.urls)
UrlRank(u) == CHOOSE i \in 1..Len(call.urls) : call.urls[i] = u

\* The places of the merged stream that hold an item of update hash h which
\* passes the filter (worker.rs:174-183).
Occurrences(h) ==
    LET merged == call.result[1].merged IN
    {k \in 1..Len(merged) : /\ filter(call.settings, merged[k])
                            /\ update_hash(call.settings, merged[k]) = h}

\* C24 as stated: the URLs are fetched from the last to the first, the
\* merged stream and the feeds of a digest are in configured URL order, and
\* of the items of one update hash that several URLs serve in a cycle exactly
\* one is emitted, which comes from the earliest of these URLs.
C24_ExactlyOneEmitted ==
    Fetched =>
       LET r == call.result[1]
           s == call.settings
       IN /\ r.order = Reverse(call.urls)
          /\ r.feeds = call.urls
          /\ \A i, j \in 1..Len(r.merged) :
                i < j => UrlRank(r.merged[i].feed) <= UrlRank(r.merged[j].feed)
          /\ \A k \in 1..Len(r.merged) :
                LET h == update_hash(s, r.merged[k])
                    same == {p \in 1..Len(r.merged) : update_hash(s, r.merged[p]) = h}
                    emitted == {n \in 1..Len(r.new_items) : update_hash(s, r.new_items[n]) = h}
                IN (\E p \in same : r.merged[p].feed # r.merged[k].feed) =>
                      /\ Cardinality(emitted) = 1
                      /\ \A n \in emitted : \A p \in same :
                            UrlRank(r.new_items[n].feed) <= UrlRank(r.merged[p].feed)

\* C24: the URLs are fetched from the last to the first; the feeds of a
\* digest are the URLs in configured order and the merged stream goes
\* through the URLs in that order; of the items of one update hash that pass
\* the filter at most one is emitted, exactly one when the hash was not
\* stored before the cycle, and it is the first of them in the merged stream,
\* which no occurrence in an earlier URL precedes.
C24_EarlierUrlWins ==
    Fetched =>
       LET r == call.result[1]
           s == call.settings
       IN /\ r.order = Reverse(call.urls)
          /\ r.feeds = call.urls
          /\ \A i, j \in 1..Len(r.merged) :
                i < j => UrlRank(r.merged[i].feed) <= UrlRank(r.merged[j].feed)
          /\ \A k \in 1..Len(r.merged) :
                LET h == update_hash(s, r.merged[k])
                    emitted == {n \in 1..Len(r.new_items) : update_hash(s, r.new_items[n]) = h}
                    first == CHOOSE o \in Occurrences(h) : \A p \in Occurrences(h) : o <= p
                IN Occurrences(h) # {} =>
                      /\ Cardinality(emitted) = IF HasItem(call.items, h) THEN 0 ELSE 1
                      /\ \A n \in emitted :
                            /\ r.new_items[n] = r.merged[first]
                            /\ \A p \in Occurrences(h) :
                                  UrlRank(r.new_items[n].feed) <= UrlRank(r.merged[p].feed)

\* C24 witness: u2 is configured before u1, both serve an item of the same
\* update hash, the two items differ, and the one of u2 is emitted.
C24_Witness ==
    /\ Fetched
    /\ call.urls = <<"u2", "u1">>
    /\ \E n \in 1..Len(call.result[1].new_items) :
          \E k \in 1..Len(call.result[1].merged) :
             /\ call.result[1].new_items[n].feed = "u2"
             /\ call.result[1].merged[k].feed = "u1"
             /\ call.result[1].merged[k].id # call.result[1].new_items[n].id
             /\ update_hash(call.settings, call.result[1].merged[k])
                   = update_hash(call.settings, call.result[1].new_items[n])


\* C25: a tick restarts the countdown (stores a new failing_hash and sets
\* debounce_count to DEBOUNCE_TIMES) exactly when the members of the failing
\* set it is given are not the stored ones; a tick given the stored members
\* in another order or with other error texts leaves failing_hash alone and
\* counts down (0 stays 0, 1 stays 1 when the transport refused the report
\* and becomes 0 otherwise, a larger count loses one).
C25_MembershipOnly ==
    [][ticks'.n # ticks.n =>
          LET restarted == /\ tracker'.debounce_count = DEBOUNCE_TIMES
                           /\ tracker.debounce_count # DEBOUNCE_TIMES
                                 \/ tracker'.failing_hash # tracker.failing_hash
          IN /\ restarted <=> ticks'.set # StoredSet
             /\ tracker'.failing_hash # tracker.failing_hash <=> ticks'.set # StoredSet
             /\ ticks'.varied =>
                   /\ ~restarted
                   /\ tracker'.debounce_count =
                         IF tracker.debounce_count > 1 THEN tracker.debounce_count - 1
                         ELSE IF tracker.debounce_count = 1 /\ ticks'.rcpt /\ ~ticks'.ok
                         THEN 1 ELSE 0]_vars

\* C25 witness: the third tick in a row on the same two failing groups was
\* given them in another order or with other error texts than the second,
\* and the countdown stands at 3.
C25_Witness ==
    /\ ticks.varied
    /\ Len(ticks.failing) = 2
    /\ ticks.run = 3
    /\ tracker.debounce_count = 3


\* worker.rs:72: is_feed_group_waiting answers, or fails, in this step.
Handles(g) == task[g].pc = "error" /\ task'[g].pc \in {"done", "recording"}

\* worker.rs:82-87: record_failure returns in this step.
Records(g) == task[g].pc = "recording" /\ task'[g].pc = "done"

\* C26: when process_feed has failed, the waiting check changes no table
\* and decides what follows: a waiting group and a check that fails end the
\* task with the failures as they are, a group that is not waiting goes on
\* to record_failure, which is applied once, on the failures row of the
\* group, unless the statement itself fails; the failures row of a group
\* gets a failure in no other step.
C26_FailureRecording ==
    [][\A g \in Groups :
          /\ Handles(g) =>
                LET waiting ==
                       is_feed_group_waiting(feed_groups[g], now, feeds[g].settings.interval)
                IN /\ task'[g].check \in {"waiting", "not waiting", "failed"}
                   /\ task'[g].check # "failed" =>
                         task'[g].check = IF waiting THEN "waiting" ELSE "not waiting"
                   /\ task'[g].pc = "recording" <=> task'[g].check = "not waiting"
                   /\ UNCHANGED <<feed_groups, feed_items, failures>>
          /\ Records(g) =>
                /\ task[g].check = "not waiting"
                /\ failures' = IF task'[g].recorded
                               THEN [failures EXCEPT ![g] =
                                       record_failure(failures[g], task[g].error, now)]
                               ELSE failures
                /\ UNCHANGED <<feed_groups, feed_items>>
          /\ (failures'[g].present /\ failures'[g] # failures[g]) =>
                (Records(g) /\ task'[g].recorded)
    ]_vars

\* C26 witness: process_feed failed for a group within its wait window, and
\* the group has no failures row after the error was handled.
C26_Witness ==
    \E g \in Groups :
       /\ task[g].pc = "done"
       /\ task[g].error # ""
       /\ task[g].check = "waiting"
       /\ feed_groups[g].present
       /\ ~failures[g].present


\* C27 as stated: when a non-wait cycle of a group commits, none of its item
\* rows has last_seen before now - keep_old (keep_old of the group), the item
\* rows of the other groups are as they were, and every item that the cycle
\* upserted, the items of the fetch that pass the filter, has a row.
C27_ItemRetention ==
    [][\A g \in Groups : Commits(g) =>
          LET s == feeds[g].settings IN
          /\ \A r \in feed_items'[g] :
                ~(r.last_seen < saturating_sub_datetime(now, s.keep_old))
          /\ \A h \in Groups \ {g} : feed_items'[h] = feed_items[h]
          /\ \A i \in 1..Len(task[g].feed) :
                filter(s, task[g].feed[i]) =>
                   HasItem(feed_items'[g], update_hash(s, task[g].feed[i]))
    ]_vars


\* C28: the commit of a cycle in which mails were sent stores a last_update
\* that is a time of that cycle, between its claim and its commit, and later
\* than the one stored before; the commit of a cycle with no new item leaves
\* last_update as it was; and no other step, of a wait cycle, of a cycle
\* that fails or of the loop, changes last_update.
C28_LastUpdate ==
    [][\A g \in Groups :
          LET old == feed_groups[g].last_update
              new == feed_groups'[g].last_update
          IN /\ (Commits(g) /\ task[g].sent > 0) =>
                   /\ new \in task[g].row.last_check .. now
                   /\ new > old
             /\ (Commits(g) /\ task[g].new_items = <<>>) => new = old
             /\ ~Commits(g) => new = old
    ]_vars

\* C28 witness: an update cycle that sent mails has committed, and the
\* stored last_update is the time of that cycle, later than the time of the
\* first cycle of the group.
C28_Witness ==
    \E g \in Groups :
       /\ task[g].pc = "done" /\ task[g].error = ""
       /\ task[g].status = "Update"
       /\ task[g].new_items # <<>>
       /\ feeds[g].settings.recipients
       /\ feed_groups[g].last_update = now
       /\ now > 1


\* The cycle of g that is running was answered wait by the claim, or g is
\* about to be answered wait: its row exists and last_check is not before
\* now - interval.
WaitDue(g) ==
    feed_groups[g].present
       /\ ~(feed_groups[g].last_check < saturating_sub_datetime(now, feeds[g].settings.interval))

\* C29: the claim of a cycle that is answered wait ends the task without an
\* error, without a fetch, a mail or a step in a transaction, and changes no
\* table (a group whose claim is due to be answered wait goes nowhere else,
\* unless the claim fails); of the whole cycle only the touch before the claim has changed
\* anything, and it changed last_seen of the group's row alone: last_check,
\* last_update, the item rows and the failures row (which stays if it
\* exists) are as they were.
C29_WaitCycle ==
    [][\A g \in Groups :
          /\ (Claims(g) /\ task'[g].status = "Wait") =>
                /\ task'[g] = [Idle EXCEPT !.pc = "done", !.status = "Wait"]
                /\ UNCHANGED <<feed_groups, feed_items, failures>>
          /\ (task[g].pc = "start" /\ task'[g].pc = "touched") =>
                /\ feed_groups'[g] = [feed_groups[g] EXCEPT
                                        !.last_seen = IF feed_groups[g].present THEN now ELSE @]
                /\ UNCHANGED <<feed_items, failures>>
                /\ \A h \in Groups \ {g} : feed_groups'[h] = feed_groups[h]
          /\ (task[g].pc = "touched" /\ WaitDue(g)) =>
                (task'[g].pc \in {"touched", "done", "error"} /\ task'[g].feed = <<>>
                    /\ task'[g].sent = 0 /\ task'[g].mails = <<>>)
    ]_vars

\* C29 witness: a wait cycle of a group that has a failures row and item
\* rows has ended; its last_seen is the time of the cycle, later than its
\* last_check.
C29_Witness ==
    \E g \in Groups :
       /\ task[g].pc = "done" /\ task[g].status = "Wait"
       /\ failures[g].present
       /\ feed_items[g] # {}
       /\ feed_groups[g].last_seen = now
       /\ feed_groups[g].last_check < now


\* C30: an item of the merged stream that the filter rejects is not among
\* the new items, and unless an item of the same update hash passes the
\* filter in the same cycle, the item rows of that update hash are after the
\* item loop what they were before it: none is inserted, none has its
\* last_seen refreshed.
C30_FilteredSkipped ==
    Fetched =>
       LET r == call.result[1]
           s == call.settings
       IN \A k \in 1..Len(r.merged) :
             ~filter(s, r.merged[k]) =>
                LET h == update_hash(s, r.merged[k]) IN
                /\ \A n \in 1..Len(r.new_items) : r.new_items[n] # r.merged[k]
                /\ Occurrences(h) = {} =>
                      {row \in r.items : row.update_hash = h}
                         = {row \in call.items : row.update_hash = h}

\* C30 witness: the filter rejected an item whose update hash has a row from
\* an earlier cycle and one whose update hash has none; the row was not
\* refreshed, no row was inserted, and an item that passed was emitted.
C30_Witness ==
    /\ Fetched
    /\ call.result[1].new_items # <<>>
    /\ \E k, m \in 1..Len(call.result[1].merged) :
          LET h == update_hash(call.settings, call.result[1].merged[k])
              j == update_hash(call.settings, call.result[1].merged[m])
          IN /\ ~filter(call.settings, call.result[1].merged[k])
             /\ ~filter(call.settings, call.result[1].merged[m])
             /\ [update_hash |-> h, last_seen |-> 0] \in call.result[1].items
             /\ ~HasItem(call.result[1].items, j)


\* The new items of a cycle have been put in the order of emission.
Sorted == call.fn = "sort" /\ call.result # <<>>

\* updated if present, else published, else nothing
SortKey(item) == IF item.updated # <<>> THEN item.updated ELSE item.published

\* C31: the emitted items are the new items, each once; without
\* sort_by_last_modified they are in merged order; with it an item with a
\* time (updated if present, else published) is never after one with an
\* earlier time or with no time, and items of equal time, or both without
\* one, are in merged order.
C31_EmissionOrder ==
    Sorted =>
       LET given == call.new_items
           out == call.result[1]
       IN /\ Len(out) = Len(given)
          /\ {out[i] : i \in 1..Len(out)} = {given[i] : i \in 1..Len(given)}
          /\ ~call.sort_by_last_modified => out = given
          /\ call.sort_by_last_modified =>
                \A i, j \in 1..Len(out) :
                   i < j =>
                      LET a == SortKey(out[i])
                          b == SortKey(out[j])
                      IN /\ a = <<>> => b = <<>>
                         /\ (a # <<>> /\ b # <<>>) => a[1] >= b[1]
                         /\ a = b => out[i].id < out[j].id

\* C31 witness: three new items were sorted; the second of the merged order,
\* which has only a publication time, comes first, the third, whose update
\* is older than its publication, second, and the first, which has no time,
\* last.
C31_Witness ==
    /\ Sorted
    /\ call.sort_by_last_modified
    /\ Len(call.result[1]) = 3
    /\ call.result[1][1].id = 2 /\ call.result[1][1].updated = <<>>
    /\ call.result[1][2].id = 3 /\ call.result[1][2].updated = <<1>> /\ call.result[1][2].published = <<2>>
    /\ call.result[1][3].id = 1 /\ SortKey(call.result[1][3]) = <<>>


\* Renderer::update_hash has returned for both items.
UpdateHashed == call.fn = "update_hash" /\ call.result # <<>>

\* The bytes that are hashed for a value: those of a string, those of the
\* digits of a number (render.rs:114-117).
ValueBytes(value) == as_bytes(value.text)

\* C32: the update hash is H(H(v1) || H(v2) || ...) over the bytes of the
\* values in the order of the keys, and two items have the same update hash
\* iff they have as many values and the bytes of their values are equal
\* position by position; so values that join to the same text but are split
\* differently, or the same values in another order, give different hashes.
C32_UpdateHash ==
    UpdateHashed =>
       LET a == call.a
           b == call.b
           Expected(v) == hash([i \in 1..Len(v) |-> hash(ValueBytes(v[i]))])
       IN /\ call.result[1] = Expected(a)
          /\ call.result[2] = Expected(b)
          /\ call.result[1] = call.result[2] <=>
                /\ Len(a) = Len(b)
                /\ \A i \in 1..Len(a) : ValueBytes(a[i]) = ValueBytes(b[i])

\* C32 witness: the values ("ab", "c") and ("a", "bc") got different hashes.
C32_Witness ==
    /\ UpdateHashed
    /\ call.a = <<Str("ab"), Str("c")>>
    /\ call.b = <<Str("a"), Str("bc")>>
    /\ call.result[1] # call.result[2]


\* worker.rs:65-91: the task of g is spawned in this step.
Spawns(g) == task[g].pc # "start" /\ task'[g].pc = "start"

\* C33: a task is spawned, and the config is replaced, only between two
\* cycles, when no task of any group is running, so a group never has a
\* second task beside a running one and every task of a cycle has been
\* joined before the reload and the spawns of the next; a spawned task
\* belongs to a group of the config in force after that step, one per
\* group; and while a task is running the config is the one its cycle
\* started with.
C33_CycleBarrier ==
    /\ [](phase = "sleep" => \A g \in Groups : ~Running(g))
    /\ [](\A g \in Groups : Running(g) => (phase = "tasks" /\ feeds[g].live))
    /\ [][/\ (feeds' # feeds \/ \E g \in Groups : Spawns(g)) =>
               /\ phase = "sleep" /\ phase' = "tasks"
               /\ \A h \in Groups : ~Running(h)
               /\ \A h \in Groups : Spawns(h) <=> feeds'[h].live
          /\ (\E g \in Groups : Running(g)) => feeds' = feeds
       ]_vars

\* C33 witness: in the cycle after a reload that removed g2, whose task ran
\* and committed in the first cycle, the task of g1 is running again and g2
\* has no task.
C33_Witness ==
    /\ phase = "tasks"
    /\ reloads = 1
    /\ task["g1"].pc = "fetched" /\ feed_groups["g1"].present
    /\ ~feeds["g2"].live /\ task["g2"].pc = "idle"
    /\ feed_groups["g2"].present


\* The last cycle of g claimed its group and then failed.
FailedAfterClaim(g) ==
    task[g].pc = "done" /\ task[g].error # "" /\ task[g].status \in {"NewFeed", "Update"}

\* C34: after a cycle that claimed the group and failed, the stored row is as
\* due as it was: try_check_feed_group answers new or update, never wait, at
\* that time and at every later one, and new when the failed cycle was the
\* first of the group; so the claim of a group that has a recorded failure
\* is never answered wait, and is answered new while the group has no row.
C34_FailedCycleRetried ==
    /\ [](\A g \in Groups : FailedAfterClaim(g) =>
             /\ \A t \in now..(MaxTime + 1) :
                   try_check_feed_group(feed_groups[g], t, feeds[g].settings.interval).status
                      = IF task[g].status = "NewFeed" THEN "new" ELSE "update"
             /\ task[g].status = "NewFeed" <=> ~feed_groups[g].present)
    /\ [][\A g \in Groups : (Claims(g) /\ failures[g].present) =>
             /\ task'[g].status \in {"NewFeed", "Update"}
             /\ task'[g].status = "NewFeed" <=> ~feed_groups[g].present
       ]_vars

\* C34 witness: a group with interval 2 has never committed a cycle; its
\* first cycles failed one after the other, the failure was recorded each
\* time, and the last one was again classified as new.
C34_Witness ==
    \E g \in Groups :
       /\ FailedAfterClaim(g)
       /\ task[g].status = "NewFeed"
       /\ feeds[g].settings.interval = 2
       /\ failures[g].present /\ failures[g].fail_count = 3
       /\ failures[g].fail_time = 3


\* C35 as stated: at one instant, for any stored row, is_feed_group_waiting
\* is true iff try_check_feed_group would answer wait.
C35_WaitingAgrees ==
    \A g \in Groups :
       is_feed_group_waiting(feed_groups[g], now, feeds[g].settings.interval)
          <=> try_check_feed_group(feed_groups[g], now, feeds[g].settings.interval).status = "wait"


\* The update hashes of the new items of the cycle of g.
NewHashes(g) ==
    {update_hash(feeds[g].settings, task[g].new_items[i]) : i \in 1..Len(task[g].new_items)}

\* C36: for a group with a recipient, an item row that was not stored before
\* appears only in the step that commits a cycle, and then every mail of the
\* cycle was accepted by the transport and every new item is in one of them;
\* the step in which a send fails for good leaves the item rows as they
\* were, and while the task stands at that failure none of the cycle's new
\* items has a row, those of mails already accepted included, so the item
\* loop over the same fetch finds all of them new again.
C36_NoSilentLoss ==
    /\ [][\A g \in Groups : feeds[g].settings.recipients =>
             /\ (\E r \in feed_items'[g] : ~HasItem(feed_items[g], r.update_hash)) =>
                   Commits(g)
             /\ (Commits(g) /\ task[g].new_items # <<>>) =>
                   /\ task[g].sent = Len(task[g].mails)
                   /\ \A i \in 1..Len(task[g].new_items) :
                         \E m \in 1..task[g].sent : \E j \in 1..Len(task[g].mails[m].items) :
                            task[g].mails[m].items[j] = task[g].new_items[i]
             /\ (task[g].error = "" /\ task'[g].error = "send failed") =>
                   feed_items' = feed_items
       ]_vars
    /\ [](\A g \in Groups :
             (task[g].pc = "error" /\ task[g].error = "send failed") =>
                /\ \A h \in NewHashes(g) : ~HasItem(feed_items[g], h) \/ task[g].status = "NewCriteria"
                /\ sort_new_items(
                      feeds[g].settings.sort_by_last_modified,
                      check_items(feeds[g].settings, task[g].feed,
                                  IF task[g].status = "NewCriteria" THEN {} ELSE feed_items[g],
                                  [i \in 1..Len(task[g].feed) |-> now]).new_items)
                      = task[g].new_items)

\* C36 witness: of the two mails of a cycle the transport accepted the first
\* and refused the second; the cycle has failed and neither item has a row.
C36_Witness ==
    \E g \in Groups :
       /\ feeds[g].settings.recipients
       /\ task[g].pc = "error" /\ task[g].error = "send failed"
       /\ Len(task[g].mails) = 2 /\ task[g].sent = 1
       /\ \A h \in NewHashes(g) : ~HasItem(feed_items[g], h)


\* C37 as stated: a tick sends the recovery mail only if a failure report
\* was sent before it and no recovery mail since; a failing set that came
\* and went without being reported is followed by no recovery mail.
C37_RecoveryAfterReport ==
    [][(ticks'.n # ticks.n /\ ticks'.mail = "All feeds are working") => ticks.reported]_vars


\* The tick of this step is given the stored failing set while
\* debounce_count is 1 and there is a report recipient: it attempts the send.
AttemptsSend ==
    /\ ticks'.n # ticks.n
    /\ failing_hash_of(sort_failures(ticks'.failing)) = tracker.failing_hash
    /\ tracker.debounce_count = 1
    /\ tracker.report_to # {}

\* C38: debounce_count is always within 0..DEBOUNCE_TIMES.  A tick that
\* attempts the send and is refused sends nothing and leaves the count at 1,
\* so that the next tick with the same set attempts it again; a tick whose
\* send is accepted sends the report and sets the count to 0, after which a
\* tick with the same set sends nothing and leaves the count at 0; a tick
\* with another set sends nothing and arms the count with DEBOUNCE_TIMES.
C38_ReportRetried ==
    /\ [](tracker.debounce_count \in 0..DEBOUNCE_TIMES)
    /\ [][/\ (AttemptsSend /\ ~ticks'.ok) =>
                /\ tracker'.debounce_count = 1
                /\ tracker'.failing_hash = tracker.failing_hash
                /\ ticks'.mail = ""
                /\ ticks'.run_failed
          /\ (AttemptsSend /\ ticks'.ok) =>
                /\ tracker'.debounce_count = 0
                /\ ticks'.mail = (IF ticks'.failing = <<>> THEN "All feeds are working"
                                  ELSE "Error processing feeds")
          /\ (/\ ticks'.n # ticks.n
              /\ failing_hash_of(sort_failures(ticks'.failing)) = tracker.failing_hash
              /\ tracker.debounce_count = 0) =>
                (tracker'.debounce_count = 0 /\ ticks'.mail = "")
          /\ (/\ ticks'.n # ticks.n
              /\ failing_hash_of(sort_failures(ticks'.failing)) # tracker.failing_hash) =>
                (tracker'.debounce_count = DEBOUNCE_TIMES /\ ticks'.mail = "")
       ]_vars

\* C38, its case: the send of a failing set's report was refused on an
\* earlier tick, and a later tick with the same set has sent it.
C38_Witness ==
    /\ ticks.set # {}
    /\ ticks.run >= 7
    /\ ticks.run_failed
    /\ ticks.mail = "Error processing feeds"
    /\ tracker.debounce_count = 0


\* C39 as stated: with an unchanged config and the group's row in place, a
\* committed cycle emits no item that the last committed cycle of the group
\* had fetched with the same update hash and passed through the filter (that
\* cycle emitted it or found it in feed_items, where only an earlier
\* emission can have put it).
C39_EmittedOnce ==
    [][\A g \in Groups :
          (Commits(g) /\ feed_groups[g].present /\ last_feed[g] # NoFeed) =>
             \A i \in 1..Len(task[g].new_items) : \A j \in 1..Len(last_feed[g]) :
                ~ /\ filter(feeds[g].settings, last_feed[g][j])
                  /\ update_hash(feeds[g].settings, last_feed[g][j])
                        = update_hash(feeds[g].settings, task[g].new_items[i])
      ]_vars

====
